---- MODULE Spec2Model ----
(***************************************************************************)
(* Persistence layer of app.py (GitHub-backed JSON document with a local   *)
(* cache file) and the request handlers that load, mutate and save it.     *)
(*                                                                         *)
(* Python objects are modelled by value plus an alias set: a loaded        *)
(* document is a mapping from top-level key to value, and `aliased` holds  *)
(* the keys whose value IS the list/dict object stored in DEFAULT_DATA     *)
(* (load_data assigns db[k] = v and DEFAULT_DATA.copy() is shallow).       *)
(* Timestamps written by now() are left out of the records.                *)
(***************************************************************************)
EXTENDS Integers, Sequences, FiniteSets, TLC

\* ------------------------------------------------------------------ bounds
MaxPosts == 1
MaxRacePosts == 2
MaxAdmins == 2
MaxContent == 1
MaxCreated == 2
MaxMembers == 2
MaxRecords == 1
MaxRepeatPosts == 2
MaxPulses == 2
MaxBooks == 1

\* ------------------------------------------------------- program constants
attempts == 3
PulseLimit == 200

Writers == {1, 2}

\* The browsers talking to the server, each with its own session cookie.
Clients == {1, 2}

DefaultKeys ==
    {"admins", "staff", "members", "attendance", "events", "summons", "bible",
     "resources", "donations", "contributions", "prayers", "pulses"}

\* DEFAULT_DATA as the module defines it: every collection empty.
EmptyDefaults == [k \in DefaultKeys |-> <<>>]

\* A mapping with no key (the JSON document {}).
EmptyMapping == [k \in {} |-> <<>>]

\* None, and the version token of a stored document: the "sha" of a contents
\* entry is the hash of the stored bytes, so equal documents have equal
\* tokens and different documents different ones.
None == {}
ShaOf(doc) == {doc}

\* ------------------------------------------------------------------- state
VARIABLES
    configured,             \* GITHUB_TOKEN and REPO are both set
    faults,                 \* the network and the disk can fail in this run
    remote,                 \* the file at DB_PATH in the repository
    LOCAL_DATA_FILE,        \* the local cache file data.json
    GITHUB_SHA,             \* the module global _GITHUB_SHA
    app_config_GITHUB_SHA,  \* app.config["GITHUB_SHA"]
    DEFAULT_DATA,           \* the module-level dict (its values are mutable)
    nextId,                 \* uuid4(): the next fresh id
    pc,                     \* per request thread: where its handler stands
    data,                   \* per thread: the dict load_data returned
    aliased,                \* per thread: keys of data bound to DEFAULT_DATA's objects
    attempt,                \* per thread: save_data's loop variable
    latest_sha,             \* per thread: save_data's latest_sha
    gets,                   \* per thread: remote reads issued by this save_data call
    puts,                   \* per thread: remote writes issued by this save_data call
    conflicts,              \* per thread: how many of them came back 409 or 422
    last_status,            \* per thread: status_code of the last one (0: None or no write)
    save_ret,               \* per thread: what save_data returned
    resp,                   \* per thread: the handler's response
    lastLoad,               \* per thread: record of the last load_data call
    hist,                   \* process: the last two load_data calls
    sha_before,             \* per thread: app.config["GITHUB_SHA"] when save_data was entered
    missed,                 \* per thread: threads whose remote write landed after my load
    lastWriter,             \* the thread whose remote write succeeded last (0: none)
    mine,                   \* per thread: id of the record this request created (0: none)
    health,                 \* the last answer of /api/health
    session,                \* per client: the session cookie (admin_id, staff_id; 0: unset)
    req                     \* per thread: the request it handles (route, client, JSON body)

procVars == <<configured, faults, remote, LOCAL_DATA_FILE, GITHUB_SHA, app_config_GITHUB_SHA,
              DEFAULT_DATA, nextId>>
saveVars == <<attempt, latest_sha, gets, puts, conflicts, last_status, save_ret, sha_before>>
raceVars == <<missed, lastWriter, mine>>
webVars == <<session, req>>
vars == <<procVars, pc, data, aliased, saveVars, resp, lastLoad, hist, raceVars, health,
          webVars>>

\* ------------------------------------------------------------- documents
\* What a thread sees under a dict: aliased keys read DEFAULT_DATA's object.
ViewOf(doc, al) ==
    [k \in DOMAIN doc |-> IF k \in al THEN DEFAULT_DATA[k] ELSE doc[k]]

View(w) == ViewOf(data[w], aliased[w])

\* The local cache file and the remote file hold text; a file is absent,
\* not JSON, JSON that is no mapping (a list, null, a number), or a mapping.
FileAbsent == [kind |-> "absent", doc |-> EmptyMapping]
RemoteAbsent == [kind |-> "absent", doc |-> EmptyMapping, sha |-> None]
RemoteFile(doc) == [kind |-> "doc", doc |-> doc, sha |-> ShaOf(doc)]
FileGarbage == [kind |-> "garbage", doc |-> EmptyMapping]
FileNonMapping == [kind |-> "nonmap", doc |-> EmptyMapping]

\* json.dump(d, f): the text holds the values the dict shows at that moment;
\* reading it back builds fresh objects, so nothing read from a file is
\* aliased to DEFAULT_DATA.
JsonDump(view) == [kind |-> "doc", doc |-> view]

\* open(LOCAL_DATA_FILE, "w") + json.dump: the file after the attempt.
\* (variant: the file is never written)
WriteLocalSkipped(file, view, ok) == file
WriteLocal(file, view, ok) == IF ok THEN JsonDump(view) ELSE file

\* ------------------------------------------------------- load_from_github
\* What one GET of the contents API can come back as.
GetOutcomes == {"neterr", "status", "badjson", "undecodable", "ok"}

\* A 200 answer carrying the stored document needs the file to exist; in a
\* run without faults the answer is that document, or 404 when there is none.
GetPossible(g) ==
    /\ g = "ok" => remote.kind = "doc"
    /\ ~faults => g = (IF remote.kind = "doc" THEN "ok" ELSE "status")

\* Whether a write of the local file can come out as ok.
DiskPossible(ok) == faults \/ ok

NoneNone == [raised |-> FALSE, isdict |-> FALSE, db |-> EmptyMapping, sha |-> None]

\* load_from_github(): (data, sha), (None, None), or an exception that leaves
\* the function: r.json() and payload.get() stand outside the try block.
load_from_github(g) ==
    IF ~configured THEN NoneNone
    ELSE IF g = "neterr" THEN NoneNone
    ELSE IF g = "status" THEN NoneNone
    ELSE IF g = "badjson" THEN [NoneNone EXCEPT !.raised = TRUE]
    ELSE IF g = "undecodable" THEN NoneNone
    ELSE [raised |-> FALSE, isdict |-> TRUE, db |-> remote.doc, sha |-> remote.sha]

\* --------------------------------------------------------------- load_data
\* for k, v in DEFAULT_DATA.items(): if k not in db: db[k] = v
\* The added keys are bound to DEFAULT_DATA's own objects.
\* (variant: every default key is reset to its default)
BackfillOverwrite(db, al) ==
    [doc |-> [k \in DOMAIN db \cup DefaultKeys |->
                IF k \in DefaultKeys THEN <<>> ELSE db[k]],
     al |-> al \cup DefaultKeys]
Backfill(db, al) ==
    [doc |-> [k \in DOMAIN db \cup DefaultKeys |->
                IF k \in DOMAIN db THEN db[k] ELSE <<>>],
     al  |-> al \cup (DefaultKeys \ DOMAIN db)]

NoLoad ==
    [raised |-> FALSE, tier |-> "none", stored |-> EmptyMapping,
     ret |-> EmptyMapping, backfilled |-> {}, cached |-> FALSE]

\* Everything a load_data call yields: the dict (doc, al), the local file it
\* leaves, the token it remembers, and for the record the tier that served
\* it ("remote", "local", or "default" when the default document was taken),
\* the stored document it read and whether it wrote the document it returns
\* to the local file.
LoadOut(raised, tier, stored, b, file, set_sha, sha, cached) ==
    [raised |-> raised, tier |-> tier, stored |-> stored, doc |-> b.doc, al |-> b.al,
     file |-> file, set_sha |-> set_sha, sha |-> sha, cached |-> cached]

\* The local branch of load_data (lines 146-166).  ok: whether the disk takes
\* writes during the call.
load_local(ok) ==
    LET f1 == IF LOCAL_DATA_FILE.kind = "absent"
              THEN WriteLocal(LOCAL_DATA_FILE, DEFAULT_DATA, ok)
              ELSE LOCAL_DATA_FILE
        none == [doc |-> EmptyMapping, al |-> {}]
    IN  IF f1.kind = "doc"
        THEN LoadOut(FALSE, IF LOCAL_DATA_FILE.kind = "doc" THEN "local" ELSE "default",
                     f1.doc, Backfill(f1.doc, {}), f1, FALSE, None,
                     LOCAL_DATA_FILE.kind # "doc")
        ELSE IF f1.kind = "nonmap"
        THEN LoadOut(TRUE, "none", EmptyMapping, none, f1, FALSE, None, FALSE)
        ELSE LoadOut(FALSE, "default", EmptyMapping, Backfill(EmptyDefaults, DefaultKeys),
                     WriteLocal(f1, DEFAULT_DATA, ok), FALSE, None, ok)

\* load_data(): g is the remote's answer to the GET (when one is issued).
load_data(g, ok) ==
    LET r == load_from_github(g) IN
    IF r.raised
    THEN LoadOut(TRUE, "none", EmptyMapping, [doc |-> EmptyMapping, al |-> {}],
                 LOCAL_DATA_FILE, FALSE, None, FALSE)
    ELSE IF configured /\ r.isdict
    THEN LET b == Backfill(r.db, {}) IN
         LoadOut(FALSE, "remote", r.db, b,
                 WriteLocal(LOCAL_DATA_FILE, ViewOf(b.doc, b.al), ok), TRUE, r.sha, ok)
    ELSE load_local(ok)

\* The record kept of a load_data call: where the document came from, the
\* stored document it was built from, and the document as returned.
LoadRecord(L) ==
    [raised |-> L.raised, tier |-> L.tier, stored |-> L.stored,
     ret |-> IF L.raised THEN EmptyMapping ELSE ViewOf(L.doc, L.al),
     backfilled |-> L.al, cached |-> L.cached]

\* What is remembered of the last two load_data calls of the process.
\* clean: save_data was not entered since the last call; untouched: nor was
\* the remote file written since.  consecutive: the last two calls had no
\* save_data between them; returned: and neither raised; equal: and they
\* returned equal documents; sameSource: nothing was written to the remote
\* file between them and both read the same stored document, being served
\* by the same tier, or the second from the local file the first one wrote.
NoHist == [clean |-> FALSE, untouched |-> FALSE, consecutive |-> FALSE,
           returned |-> FALSE, equal |-> FALSE, sameSource |-> FALSE]

SameSource(last, L) ==
    \/ L.tier = last.tier
    \/ last.tier \in {"remote", "default"} /\ last.cached /\ L.tier = "local"

\* The process state a load_data call leaves behind.
LoadEffects(w, L, saving) ==
    /\ LOCAL_DATA_FILE' = L.file
    /\ GITHUB_SHA' = IF L.set_sha THEN L.sha ELSE GITHUB_SHA
    /\ app_config_GITHUB_SHA' = IF L.set_sha THEN L.sha ELSE app_config_GITHUB_SHA
    /\ lastLoad' = [lastLoad EXCEPT ![w] = LoadRecord(L)]
    /\ hist' = [clean |-> ~saving, untouched |-> ~saving,
                consecutive |-> hist.clean,
                returned |-> hist.clean /\ ~L.raised /\ ~lastLoad[w].raised,
                equal |-> /\ hist.clean
                          /\ ~L.raised
                          /\ ~lastLoad[w].raised
                          /\ LoadRecord(L).ret = lastLoad[w].ret,
                sameSource |-> hist.clean /\ hist.untouched /\ SameSource(lastLoad[w], L)]

\* --------------------------------------------------------- save_to_github
\* What one PUT of the contents API can come back as: no answer, a status
\* that is neither success nor conflict, a conflict (409 for a stale sha, 422
\* for a missing one), success, success with a body that is not JSON.
PutOutcomes == {"neterr", "other", "conflict", "ok", "ok_nobody"}

\* The store's conditional write: it succeeds when the sha sent is the
\* file's current sha (no sha for a file that does not exist yet), and
\* reports a conflict otherwise.
ShaMatches(sha) == sha = remote.sha

PutPossible(p, sha) ==
    /\ p \in {"ok", "ok_nobody"} => ShaMatches(sha)
    /\ p = "conflict" => ~ShaMatches(sha)
    /\ ~faults => p \in {"ok", "conflict"}

\* save_to_github(data, sha): (success, new_sha, status_code); 0 stands for a
\* status_code of None.
(* variant: a successful write hands back the sha it was sent *)
save_to_github_echo(view, sha, p) ==
    IF ~configured THEN [success |-> FALSE, new_sha |-> None, status_code |-> 0]
    ELSE IF p = "neterr" THEN [success |-> FALSE, new_sha |-> None, status_code |-> 0]
    ELSE IF p \in {"ok", "ok_nobody"}
    THEN [success |-> TRUE, new_sha |-> sha,
          status_code |-> IF remote.kind = "doc" THEN 200 ELSE 201]
    ELSE IF p = "conflict"
    THEN [success |-> FALSE, new_sha |-> None,
          status_code |-> IF sha = None THEN 422 ELSE 409]
    ELSE [success |-> FALSE, new_sha |-> None, status_code |-> 500]
save_to_github(view, sha, p) ==
    IF ~configured THEN [success |-> FALSE, new_sha |-> None, status_code |-> 0]
    ELSE IF p = "neterr" THEN [success |-> FALSE, new_sha |-> None, status_code |-> 0]
    ELSE IF p = "ok"
    THEN [success |-> TRUE, new_sha |-> ShaOf(view),
          status_code |-> IF remote.kind = "doc" THEN 200 ELSE 201]
    ELSE IF p = "ok_nobody"
    THEN [success |-> TRUE, new_sha |-> None,
          status_code |-> IF remote.kind = "doc" THEN 200 ELSE 201]
    ELSE IF p = "conflict"
    THEN [success |-> FALSE, new_sha |-> None,
          status_code |-> IF sha = None THEN 422 ELSE 409]
    ELSE [success |-> FALSE, new_sha |-> None, status_code |-> 500]

\* --------------------------------------------------------------- save_data
\* if status_code in (409, 422): ... continue
\* (variant: every failed write is retried)
RetryStatusAnyFailure(status_code) == status_code \notin {200, 201}
RetryStatus(status_code) == status_code \in {409, 422}

\* for attempt in range(attempts): whether another pass follows this one.
\* (variant: the loop has no attempt limit)
MoreAttemptsAlways(a) == TRUE
MoreAttempts(a) == a + 1 < attempts

\* The fallback's and the local mode's result: True when the file was written.
\* (variant: the fallback always reports failure)
FallbackReturnFalse(ok) == "false"
FallbackReturn(ok) == IF ok THEN "true" ELSE "false"

\* What a mutating handler answers once save_data has returned: the handlers
\* call save_data(data) and drop its result.
HandlerResponse(ret) == [status |-> 200, ok |-> TRUE]

Response500 == [status |-> 500, ok |-> FALSE]
NoResponse == [status |-> 0, ok |-> FALSE]

\* ----------------------------------------------------------------- records
Strip(s) == IF s = " " THEN "" ELSE s

OrDefault(s, d) == IF s = "" THEN d ELSE s

\* next((s for s in data.get("staff", []) if s["id"] == sid), None)
(* variant: any staff record is taken for the one asked for *)
StaffWithIdAny(view, sid) == {i \in 1..Len(view["staff"]) : TRUE}
StaffWithId(view, sid) ==
    {i \in 1..Len(view["staff"]) : view["staff"][i].id = sid}

Prayer(id, name, body, to, toname) ==
    [id |-> id, name |-> name, body |-> body, assigned_to |-> to,
     assigned_name |-> toname, reply |-> "", status |-> "open"]

Staff0 == [id |-> 50, name |-> "Sam", perms |-> [post_content |-> FALSE],
           pass_hash |-> <<"pbkdf2", "s">>]

\* Inputs of POST /api/prayers.
Bodies == {"", "pray"}
Names == {"Ada"}
AssignInputs == {50}

\* The stored document a process can start from: one written before
\* "prayers", "contributions" and "pulses" were added to the schema.
DocOld ==
    [k \in DefaultKeys \ {"prayers", "contributions", "pulses"} |->
        IF k = "staff" THEN <<Staff0>> ELSE <<>>]
StoredDocs == {DocOld}

\* An in-place change of the object under key k (list.insert, list.append):
\* it lands in DEFAULT_DATA when the key is bound to DEFAULT_DATA's object.
MutDoc(doc, al, k, v) == IF k \in al THEN doc ELSE [doc EXCEPT ![k] = v]
MutDefault(al, k, v) == IF k \in al THEN [DEFAULT_DATA EXCEPT ![k] = v] ELSE DEFAULT_DATA

\* -------------------------------------------------------------------- Init
NoHealth == [asked |-> FALSE, github_sha |-> None, after_fallback |-> FALSE,
             remote_sha |-> None]


\* session.clear(), and no request yet.
NoSession == [admin_id |-> 0, staff_id |-> 0]
NoRequest == [op |-> "none", client |-> 0]

InitThreads ==
    /\ pc = [w \in Writers |-> "idle"]
    /\ data = [w \in Writers |-> EmptyMapping]
    /\ aliased = [w \in Writers |-> {}]
    /\ attempt = [w \in Writers |-> 0]
    /\ latest_sha = [w \in Writers |-> None]
    /\ gets = [w \in Writers |-> 0]
    /\ puts = [w \in Writers |-> 0]
    /\ conflicts = [w \in Writers |-> 0]
    /\ last_status = [w \in Writers |-> 0]
    /\ save_ret = [w \in Writers |-> "none"]
    /\ resp = [w \in Writers |-> NoResponse]
    /\ lastLoad = [w \in Writers |-> NoLoad]
    /\ sha_before = [w \in Writers |-> None]
    /\ missed = [w \in Writers |-> {}]
    /\ mine = [w \in Writers |-> 0]
    /\ hist = NoHist
    /\ lastWriter = 0
    /\ health = NoHealth
    /\ req = [w \in Writers |-> NoRequest]

InitProcess ==
    /\ GITHUB_SHA = None
    /\ app_config_GITHUB_SHA = None
    /\ DEFAULT_DATA = EmptyDefaults
    /\ nextId = 1

Init ==
    /\ configured \in BOOLEAN
    /\ faults = TRUE
    /\ session = [c \in Clients |-> NoSession]
    /\ remote \in IF configured
                  THEN {RemoteAbsent} \cup {RemoteFile(d) : d \in StoredDocs}
                  ELSE {RemoteAbsent}
    /\ LOCAL_DATA_FILE \in {FileAbsent, FileGarbage, FileNonMapping}
                           \cup {JsonDump(d) : d \in StoredDocs}
    /\ InitProcess
    /\ InitThreads

\* ---------------------------------------------------------------- requests
\* A thread takes a new request: the locals of its last one are gone.
BeginRequest(w) ==
    /\ pc[w] = "idle"
    /\ attempt' = [attempt EXCEPT ![w] = 0]
    /\ latest_sha' = [latest_sha EXCEPT ![w] = None]
    /\ gets' = [gets EXCEPT ![w] = 0]
    /\ puts' = [puts EXCEPT ![w] = 0]
    /\ conflicts' = [conflicts EXCEPT ![w] = 0]
    /\ last_status' = [last_status EXCEPT ![w] = 0]
    /\ missed' = [v \in Writers |-> IF v = w THEN {} ELSE missed[v] \ {w}]

\* POST /api/prayers: load_data(), validate, insert the prayer at the front
\* of data["prayers"], then enter save_data(data).
\* limit: how many prayers the run takes; tos: the assigned_to it may carry.
ApiPrayersPost(w, limit, tos) ==
    /\ BeginRequest(w)
    /\ nextId <= limit
    /\ \E g \in GetOutcomes, ok \in BOOLEAN,
          jbody \in Bodies, jname \in Names, jto \in tos :
        /\ GetPossible(g) /\ DiskPossible(ok)
        /\ LET L == load_data(g, ok)
               body == Strip(jbody)
               name == Strip(OrDefault(jname, "Anonymous"))
               view == ViewOf(L.doc, L.al)
               found == IF L.raised \/ jto = 0 THEN {} ELSE StaffWithId(view, jto)
               to == IF found = {} THEN 0 ELSE jto
               toname == IF found = {} THEN ""
                         ELSE view["staff"][CHOOSE i \in found : \A j \in found : i <= j].name
               prayer == Prayer(nextId, name, body, to, toname)
               saving == ~L.raised /\ body # ""
               after == IF saving THEN <<prayer>> \o view["prayers"] ELSE <<>>
           IN
            /\ LoadEffects(w, L, saving)
            /\ req' = [req EXCEPT ![w] = [op |-> "api_prayers", client |-> 0,
                                          body |-> jbody, assigned_to |-> jto]]
            /\ aliased' = [aliased EXCEPT ![w] = L.al]
            /\ sha_before' = [sha_before EXCEPT ![w] =
                                IF saving THEN app_config_GITHUB_SHA' ELSE None]
            /\ IF saving
               THEN /\ data' = [data EXCEPT ![w] = MutDoc(L.doc, L.al, "prayers", after)]
                    /\ DEFAULT_DATA' = MutDefault(L.al, "prayers", after)
                    /\ nextId' = nextId + 1
                    /\ mine' = [mine EXCEPT ![w] = nextId]
                    /\ pc' = [pc EXCEPT ![w] = IF configured THEN "save_get" ELSE "save_local"]
                    /\ resp' = [resp EXCEPT ![w] = NoResponse]
               ELSE /\ data' = [data EXCEPT ![w] = L.doc]
                    /\ UNCHANGED <<DEFAULT_DATA, nextId, pc>>
                    /\ mine' = [mine EXCEPT ![w] = 0]
                    /\ resp' = [resp EXCEPT ![w] =
                                  IF L.raised THEN Response500
                                  ELSE [status |-> 400, ok |-> FALSE]]
    /\ save_ret' = [save_ret EXCEPT ![w] = "none"]
    /\ health' = NoHealth
    /\ UNCHANGED <<configured, faults, remote, lastWriter, session>>

\* --------------------------------------------------- save_data, step by step
\* What the handler does to the session once save_data has returned:
\* admin_register logs the new admin in (lines 368-370); an exception of
\* save_data leaves the handler before that.
AfterSave(w, ret) ==
    IF req[w].op = "admin_register" /\ ret # "raised"
    THEN [session EXCEPT ![req[w].client] = [admin_id |-> mine[w], staff_id |-> 0]]
    ELSE session

\* save_data returns (or raises): its locals are gone, and the handler that
\* called it answers.
SaveReturns(w, ret, answer) ==
    /\ pc' = [pc EXCEPT ![w] = "idle"]
    /\ session' = AfterSave(w, ret)
    /\ save_ret' = [save_ret EXCEPT ![w] = ret]
    /\ resp' = [resp EXCEPT ![w] = answer]
    /\ attempt' = [attempt EXCEPT ![w] = 0]
    /\ latest_sha' = [latest_sha EXCEPT ![w] = None]
    /\ lastLoad' = [lastLoad EXCEPT ![w] = NoLoad]

\* One pass of the loop, first half: latest_db, latest_sha = load_from_github().
\* An exception of load_from_github leaves save_data and the handler.
SaveGet(w) ==
    /\ pc[w] = "save_get"
    /\ \E g \in GetOutcomes :
        /\ GetPossible(g)
        /\ LET r == load_from_github(g) IN
            /\ gets' = [gets EXCEPT ![w] = @ + 1]
            /\ IF r.raised
               THEN SaveReturns(w, "raised", Response500)
               ELSE /\ pc' = [pc EXCEPT ![w] = "save_put"]
                    /\ latest_sha' = [latest_sha EXCEPT ![w] = r.sha]
                    /\ UNCHANGED <<save_ret, resp, attempt, lastLoad, session>>
    /\ UNCHANGED <<procVars, data, aliased, puts, conflicts, last_status,
                   sha_before, hist, raceVars, health, req>>

\* Second half: save_to_github(data, sha=latest_sha), then return True, go
\* round again, or leave the loop.  ok: whether the cache write succeeds.
SavePut(w) ==
    /\ pc[w] = "save_put"
    /\ \E p \in PutOutcomes, ok \in BOOLEAN :
        /\ PutPossible(p, latest_sha[w]) /\ DiskPossible(ok)
        /\ LET r == save_to_github(View(w), latest_sha[w], p) IN
            /\ puts' = [puts EXCEPT ![w] = @ + 1]
            /\ last_status' = [last_status EXCEPT ![w] = r.status_code]
            /\ conflicts' = [conflicts EXCEPT ![w] =
                               IF r.status_code \in {409, 422} THEN @ + 1 ELSE @]
            /\ IF r.success
               THEN /\ remote' = RemoteFile(View(w))
                    /\ GITHUB_SHA' = r.new_sha
                    /\ app_config_GITHUB_SHA' = r.new_sha
                    /\ LOCAL_DATA_FILE' = WriteLocal(LOCAL_DATA_FILE, View(w), ok)
                    /\ SaveReturns(w, "true", HandlerResponse("true"))
                    /\ lastWriter' = w
                    /\ missed' = [v \in Writers |->
                                    IF v # w /\ pc[v] \in {"save_get", "save_put"}
                                    THEN missed[v] \cup {w} ELSE missed[v]]
               ELSE /\ IF RetryStatus(r.status_code) /\ MoreAttempts(attempt[w])
                       THEN /\ pc' = [pc EXCEPT ![w] = "save_get"]
                            /\ attempt' = [attempt EXCEPT ![w] = @ + 1]
                       ELSE /\ pc' = [pc EXCEPT ![w] = "save_fallback"]
                            /\ UNCHANGED attempt
                    /\ UNCHANGED <<remote, GITHUB_SHA, app_config_GITHUB_SHA, LOCAL_DATA_FILE,
                                   save_ret, resp, lastWriter, missed, latest_sha, lastLoad,
                                   session>>
    /\ UNCHANGED <<configured, faults, DEFAULT_DATA, nextId, data, aliased,
                   gets, sha_before, hist, mine, health, req>>

\* After the loop (lines 205-214): write the local cache, return True, or
\* False when the write fails.
SaveFallback(w) ==
    /\ pc[w] = "save_fallback"
    /\ \E ok \in BOOLEAN :
        /\ DiskPossible(ok)
        /\ LOCAL_DATA_FILE' = WriteLocal(LOCAL_DATA_FILE, View(w), ok)
        /\ SaveReturns(w, FallbackReturn(ok), HandlerResponse(FallbackReturn(ok)))
    /\ UNCHANGED <<configured, faults, remote, GITHUB_SHA, app_config_GITHUB_SHA, DEFAULT_DATA,
                   nextId, data, aliased, gets, puts, conflicts, last_status,
                   sha_before, hist, raceVars, health, req>>

\* Pure local mode (lines 215-222).
SaveLocal(w) ==
    /\ pc[w] = "save_local"
    /\ \E ok \in BOOLEAN :
        /\ DiskPossible(ok)
        /\ LOCAL_DATA_FILE' = WriteLocal(LOCAL_DATA_FILE, View(w), ok)
        /\ SaveReturns(w, FallbackReturn(ok), HandlerResponse(FallbackReturn(ok)))
    /\ UNCHANGED <<configured, faults, remote, GITHUB_SHA, app_config_GITHUB_SHA, DEFAULT_DATA,
                   nextId, data, aliased, gets, puts, conflicts, last_status,
                   sha_before, hist, raceVars, health, req>>

\* The last save_data call of thread w ended in the fallback after the loop.
FellBack(w) ==
    /\ pc[w] = "idle"
    /\ save_ret[w] \in {"true", "false"}
    /\ puts[w] > 0
    /\ last_status[w] \notin {200, 201}

\* GET /api/health: the answer's github_sha is read from app.config before
\* the handler's own load_data() (for pulses_count) runs.
ApiHealth(w) ==
    /\ BeginRequest(w)
    /\ health' = [asked |-> TRUE, github_sha |-> app_config_GITHUB_SHA,
                  after_fallback |-> FellBack(w), remote_sha |-> remote.sha]
    /\ \E g \in GetOutcomes, ok \in BOOLEAN :
        /\ GetPossible(g) /\ DiskPossible(ok)
        /\ LET L == load_data(g, ok) IN
            /\ LoadEffects(w, L, FALSE)
            /\ data' = [data EXCEPT ![w] = L.doc]
            /\ aliased' = [aliased EXCEPT ![w] = L.al]
            /\ resp' = [resp EXCEPT ![w] =
                          IF L.raised THEN Response500 ELSE [status |-> 200, ok |-> TRUE]]
    /\ save_ret' = [save_ret EXCEPT ![w] = "none"]
    /\ sha_before' = [sha_before EXCEPT ![w] = None]
    /\ mine' = [mine EXCEPT ![w] = 0]
    /\ req' = [req EXCEPT ![w] = [op |-> "api_health", client |-> 0]]
    /\ UNCHANGED <<configured, faults, remote, DEFAULT_DATA, nextId, pc, lastWriter, session>>

\* ------------------------------------------------- what handlers share
\* data[k] = v: the key is bound to a new object, DEFAULT_DATA's is left alone.
SetKey(doc, al, k, v) == [doc |-> [doc EXCEPT ![k] = v], al |-> al \ {k}]

\* A handler that has changed its dict calls save_data(data).  doc, al: the
\* dict after the change; dflt: DEFAULT_DATA after it; created: the id the
\* handler drew from uuid4() (0: none).
EnterSave(w, L, doc, al, dflt, created) ==
    /\ LoadEffects(w, L, TRUE)
    /\ data' = [data EXCEPT ![w] = doc]
    /\ aliased' = [aliased EXCEPT ![w] = al]
    /\ DEFAULT_DATA' = dflt
    /\ sha_before' = [sha_before EXCEPT ![w] = app_config_GITHUB_SHA']
    /\ pc' = [pc EXCEPT ![w] = IF configured THEN "save_get" ELSE "save_local"]
    /\ resp' = [resp EXCEPT ![w] = NoResponse]
    /\ mine' = [mine EXCEPT ![w] = created]
    /\ nextId' = IF created = 0 THEN nextId ELSE nextId + 1
    /\ save_ret' = [save_ret EXCEPT ![w] = "none"]
    /\ health' = NoHealth
    /\ UNCHANGED <<configured, faults, remote, lastWriter>>

\* A handler that returns after its load_data() without calling save_data;
\* an exception of load_data is answered with 500.
Answer(w, L, answer) ==
    /\ LoadEffects(w, L, FALSE)
    /\ data' = [data EXCEPT ![w] = L.doc]
    /\ aliased' = [aliased EXCEPT ![w] = L.al]
    /\ resp' = [resp EXCEPT ![w] = IF L.raised THEN Response500 ELSE answer]
    /\ mine' = [mine EXCEPT ![w] = 0]
    /\ sha_before' = [sha_before EXCEPT ![w] = None]
    /\ save_ret' = [save_ret EXCEPT ![w] = "none"]
    /\ health' = NoHealth
    /\ pc' = [pc EXCEPT ![w] = "idle"]
    /\ UNCHANGED <<configured, faults, remote, lastWriter, DEFAULT_DATA, nextId>>

\* A handler or decorator that returns before any load_data() call.
AnswerUnloaded(w, answer) ==
    /\ resp' = [resp EXCEPT ![w] = answer]
    /\ pc' = [pc EXCEPT ![w] = "idle"]
    /\ data' = [data EXCEPT ![w] = EmptyMapping]
    /\ aliased' = [aliased EXCEPT ![w] = {}]
    /\ lastLoad' = [lastLoad EXCEPT ![w] = NoLoad]
    /\ mine' = [mine EXCEPT ![w] = 0]
    /\ sha_before' = [sha_before EXCEPT ![w] = None]
    /\ save_ret' = [save_ret EXCEPT ![w] = "none"]
    /\ health' = NoHealth
    /\ UNCHANGED <<procVars, hist, lastWriter>>

\* A decorator that lets the request through to the wrapped function, after
\* a load_data() of its own (Admit) or without one (AdmitUnloaded).
Admit(w, L) ==
    /\ LoadEffects(w, L, FALSE)
    /\ data' = [data EXCEPT ![w] = L.doc]
    /\ aliased' = [aliased EXCEPT ![w] = L.al]
    /\ resp' = [resp EXCEPT ![w] = NoResponse]
    /\ pc' = [pc EXCEPT ![w] = "admitted"]
    /\ mine' = [mine EXCEPT ![w] = 0]
    /\ sha_before' = [sha_before EXCEPT ![w] = None]
    /\ save_ret' = [save_ret EXCEPT ![w] = "none"]
    /\ health' = NoHealth
    /\ UNCHANGED <<configured, faults, remote, lastWriter, DEFAULT_DATA, nextId>>

AdmitUnloaded(w) ==
    /\ resp' = [resp EXCEPT ![w] = NoResponse]
    /\ pc' = [pc EXCEPT ![w] = "admitted"]
    /\ data' = [data EXCEPT ![w] = EmptyMapping]
    /\ aliased' = [aliased EXCEPT ![w] = {}]
    /\ lastLoad' = [lastLoad EXCEPT ![w] = NoLoad]
    /\ mine' = [mine EXCEPT ![w] = 0]
    /\ sha_before' = [sha_before EXCEPT ![w] = None]
    /\ save_ret' = [save_ret EXCEPT ![w] = "none"]
    /\ health' = NoHealth
    /\ UNCHANGED <<procVars, hist, lastWriter>>

Error(status, text) == [status |-> status, ok |-> FALSE, error |-> text]

\* ------------------------------------------------------------ admin auth
\* generate_password_hash / check_password_hash: a hash that matches its
\* own password and no other.
Hash(password) == <<"pbkdf2", password>>
CheckHash(pass_hash, password) == pass_hash = Hash(password)

RegisterNames == {"root", "eve"}
RegisterPasswords == {"x", ""}

AnyAdminSession == \E c \in Clients : session[c].admin_id # 0

\* POST /api/admin/register from client c.  limit: how many ids the run draws.
AdminRegister(w, c, limit) ==
    /\ BeginRequest(w)
    /\ nextId <= limit
    /\ \E g \in GetOutcomes, ok \in BOOLEAN,
          jname \in RegisterNames, jpassword \in RegisterPasswords :
        /\ GetPossible(g) /\ DiskPossible(ok)
        /\ req' = [req EXCEPT ![w] = [op |-> "admin_register", client |-> c,
                                      name |-> jname, password |-> jpassword,
                                      after_success |-> AnyAdminSession]]
        /\ LET L == load_data(g, ok)
               view == ViewOf(L.doc, L.al)
               name == Strip(jname)
               admin == [id |-> nextId, name |-> name, pass_hash |-> Hash(jpassword)]
               set == SetKey(L.doc, L.al, "admins", <<admin>>)
           IN
            IF L.raised THEN Answer(w, L, Response500)
            ELSE IF view["admins"] # <<>>
            THEN Answer(w, L, Error(400, "Admin already exists"))
            ELSE IF name = "" \/ jpassword = ""
            THEN Answer(w, L, Error(400, "Name & password required"))
            ELSE EnterSave(w, L, set.doc, set.al, DEFAULT_DATA, nextId)
    /\ UNCHANGED session

\* ------------------------------------------------------------ decorators
\* The records of a list whose "id" is the given one, first match first.
WithId(list, id) == {i \in 1..Len(list) : list[i].id = id}
First(found) == CHOOSE i \in found : \A j \in found : i <= j

\* staff.get("perms", {}).get(check_perm_name), taken for its truth value.
(* variant: the permission map is not consulted *)
HasPermAlways(staff, perm) == TRUE
HasPerm(staff, perm) ==
    /\ "perms" \in DOMAIN staff
    /\ perm \in DOMAIN staff.perms
    /\ staff.perms[perm]

\* The staff record the session's staff_id names in a loaded document:
\* a set with that record, or the empty set.
(* variant: the session's staff_id is trusted without looking it up *)
StaffOfTrusted(view, sid) ==
    {[id |-> sid, name |-> "", perms |-> [post_content |-> TRUE]]}
StaffOf(view, sid) ==
    LET found == WithId(view["staff"], sid)
    IN IF found = {} THEN {} ELSE {view["staff"][First(found)]}

\* admin_required (lines 226-232).
AdminRequired(sess) == sess.admin_id # 0

\* staff_or_admin_allowed(check_perm_name): the decorator of a route.
PermOf(op) ==
    IF op \in {"collection_post", "collection_put"} THEN "post_content"
    ELSE IF op \in {"donations_post", "donation_put"} THEN "add_donations"
    ELSE IF op \in {"contributions_post", "contribution_put"} THEN "add_contributions"
    ELSE "reply_prayers"

\* The decorator runs for a request r of client c (r: route and JSON body).
\* It leaves in req what it saw: whether it loaded the document and the
\* staff list it found there.
StaffOrAdminAllowed(w, c, Requests, limit) ==
    /\ BeginRequest(w)
    /\ nextId <= limit
    /\ \E r \in Requests, g \in GetOutcomes, ok \in BOOLEAN :
        /\ GetPossible(g) /\ DiskPossible(ok)
        /\ LET sess == session[c]
               L == load_data(g, ok)
               view == ViewOf(L.doc, L.al)
               staff == IF L.raised THEN {} ELSE StaffOf(view, sess.staff_id)
               seen(loaded) == [r EXCEPT !.client = c, !.gate_loaded = loaded,
                                        !.gate_staff = IF loaded THEN view["staff"] ELSE <<>>]
           IN
            IF sess.admin_id # 0
            THEN AdmitUnloaded(w) /\ req' = [req EXCEPT ![w] = seen(FALSE)]
            ELSE IF sess.staff_id = 0
            THEN /\ AnswerUnloaded(w, Error(403, "Login required"))
                 /\ req' = [req EXCEPT ![w] = seen(FALSE)]
            ELSE /\ req' = [req EXCEPT ![w] = seen(~L.raised)]
                 /\ IF L.raised THEN Answer(w, L, Response500)
                    ELSE IF staff = {}
                    THEN Answer(w, L, Error(403, "Staff not found"))
                    ELSE IF \E st \in staff : ~HasPerm(st, PermOf(r.op))
                    THEN Answer(w, L, Error(403, "Permission denied"))
                    ELSE Admit(w, L)
    /\ UNCHANGED session

\* A request as it arrives: route, JSON body, and what the decorator adds.
Request(op, fields) ==
    [k \in {"op", "client", "gate_loaded", "gate_staff"} \cup DOMAIN fields |->
        IF k = "op" THEN op
        ELSE IF k = "client" THEN 0
        ELSE IF k = "gate_loaded" THEN FALSE
        ELSE IF k = "gate_staff" THEN <<>>
        ELSE fields[k]]

\* The wrapped function runs for the request the decorator admitted.
ContinueRequest(w, op) ==
    /\ pc[w] = "admitted"
    /\ req[w].op = op
    /\ UNCHANGED <<attempt, latest_sha, gets, puts, conflicts, last_status, missed,
                   webVars>>

\* --------------------------------------------- content: events, summons, ...
ContentCollections == {"events", "summons", "bible", "resources"}

\* {"id": str(uuid.uuid4()), **j, "created_at": now()}: the keys of j come
\* after "id" and win over it.
NewItem(id, j) ==
    [k \in {"id"} \cup DOMAIN j |-> IF k \in DOMAIN j THEN j[k] ELSE id]

\* POST /api/admin/<collection> bodies: with and without an "id" of their own.
ContentBodies == {[title |-> "t"], [title |-> "t", id |-> 50]}
ContentRequests ==
    {Request("collection_post", [collection |-> "events", j |-> j]) : j \in ContentBodies}
    \cup {Request("collection_post", [collection |-> "sermons", j |-> [title |-> "t"]])}

\* admin_collection_post, POST (lines 481-493).
CollectionPost(w) ==
    /\ ContinueRequest(w, "collection_post")
    /\ \E g \in GetOutcomes, ok \in BOOLEAN :
        /\ GetPossible(g) /\ DiskPossible(ok)
        /\ LET r == req[w]
               L == load_data(g, ok)
               item == NewItem(nextId, r.j)
               after == IF L.raised \/ r.collection \notin ContentCollections THEN <<>>
                        ELSE <<item>> \o ViewOf(L.doc, L.al)[r.collection]
           IN
            IF r.collection \notin ContentCollections
            THEN AnswerUnloaded(w, Error(400, "Invalid collection"))
            ELSE IF L.raised THEN Answer(w, L, Response500)
            ELSE EnterSave(w, L, MutDoc(L.doc, L.al, r.collection, after), L.al,
                           MutDefault(L.al, r.collection, after), nextId)

\* ------------------------------------------------------ staff management
Without(list, id) == SelectSeq(list, LAMBDA x : x.id # id)

DeleteIds == {50, 51}

\* admin_staff, DELETE (lines 670-691), from client c.
AdminStaffDelete(w, c) ==
    /\ BeginRequest(w)
    /\ \E sid \in DeleteIds, g \in GetOutcomes, ok \in BOOLEAN :
        /\ GetPossible(g) /\ DiskPossible(ok)
        /\ req' = [req EXCEPT ![w] = [op |-> "staff_delete", client |-> c, id |-> sid]]
        /\ LET L == load_data(g, ok)
               set == SetKey(L.doc, L.al, "staff", Without(ViewOf(L.doc, L.al)["staff"], sid))
           IN
            IF ~AdminRequired(session[c])
            THEN AnswerUnloaded(w, Error(403, "Admin login required"))
            ELSE IF L.raised THEN Answer(w, L, Response500)
            ELSE EnterSave(w, L, set.doc, set.al, DEFAULT_DATA, 0)
    /\ UNCHANGED session

\* ------------------------------------------------------------- logins
\* POST /api/admin/login and POST /api/staff/login from client c.
Credentials == {<<"root", "x">>, <<"Sam", "s">>, <<"Pat", "s">>, <<"Pat", "bad">>}

Login(w, c, op, key) ==
    /\ BeginRequest(w)
    /\ \E cr \in Credentials, g \in GetOutcomes, ok \in BOOLEAN :
        /\ GetPossible(g) /\ DiskPossible(ok)
        /\ req' = [req EXCEPT ![w] = [op |-> op, client |-> c,
                                      name |-> cr[1], password |-> cr[2]]]
        /\ LET L == load_data(g, ok)
               list == ViewOf(L.doc, L.al)[key]
               found == IF L.raised THEN {}
                        ELSE {i \in 1..Len(list) :
                                /\ list[i].name = Strip(cr[1])
                                /\ CheckHash(list[i].pass_hash, cr[2])}
           IN
            /\ Answer(w, L, IF found = {} THEN Error(401, "Invalid credentials")
                            ELSE [status |-> 200, ok |-> TRUE])
            /\ session' = IF found = {} THEN session
                          ELSE [session EXCEPT ![c] =
                                  IF key = "admins"
                                  THEN [admin_id |-> list[First(found)].id, staff_id |-> 0]
                                  ELSE [admin_id |-> 0, staff_id |-> list[First(found)].id]]

AdminLogin(w, c) == Login(w, c, "admin_login", "admins")
StaffLogin(w, c) == Login(w, c, "staff_login", "staff")

\* ------------------------------------------------- members, attendance
\* A member: {"id", "name", "gender", ...}.  data["attendance"] maps a date
\* to a dict from member id to {"status", ...}; a dict from member ids is
\* held as the set of its items, at most one per id.
Member(id, name, gender) == [id |-> id, name |-> name, gender |-> gender]

\* j.get(k, d)
GetOr(j, k, d) == IF k \in DOMAIN j THEN j[k] ELSE d

\* day.pop(mid, None)
(* variant: the whole day is emptied *)
PoppedAll(day, mid) == {}
Popped(day, mid) == {e \in day : e.id # mid}

\* day[mid] = {"status": status, ...}
Put(day, mid, status) == Popped(day, mid) \cup {[id |-> mid, status |-> status]}

\* data["attendance"].setdefault(date, {})[mid] = {...}
Marked(att, date, mid, status) ==
    [d \in DOMAIN att \cup {date} |->
        IF d = date THEN Put(IF date \in DOMAIN att THEN att[date] ELSE {}, mid, status)
        ELSE att[d]]

\* for day in data["attendance"].values(): day.pop(mid, None)
Cascaded(att, mid) == [d \in DOMAIN att |-> Popped(att[d], mid)]

MemberNames == {"Al", ""}
MemberIds == {1, 2}
MemberPutBodies ==
    {[id |-> i, gender |-> "f"] : i \in MemberIds}
    \cup {[id |-> i, name |-> n] : i \in MemberIds, n \in {"Bo", ""}}
AttendanceDates == {"d1", "d2"}
AttendanceStatuses == {"present", "late"}

\* admin_members, POST (lines 417-429), from client c.
\* limit: how many ids the run draws.
MembersPost(w, c, limit) ==
    /\ BeginRequest(w)
    /\ nextId <= limit
    /\ \E jname \in MemberNames, g \in GetOutcomes, ok \in BOOLEAN :
        /\ GetPossible(g) /\ DiskPossible(ok)
        /\ req' = [req EXCEPT ![w] = [op |-> "members_post", client |-> c, name |-> jname]]
        /\ LET L == load_data(g, ok)
               name == Strip(jname)
               m == Member(nextId, name, "")
               after == IF L.raised THEN <<>>
                        ELSE Append(ViewOf(L.doc, L.al)["members"], m)
           IN
            IF ~AdminRequired(session[c])
            THEN AnswerUnloaded(w, Error(403, "Admin login required"))
            ELSE IF L.raised THEN Answer(w, L, Response500)
            ELSE IF name = "" THEN Answer(w, L, Error(400, "Name required"))
            ELSE EnterSave(w, L, MutDoc(L.doc, L.al, "members", after), L.al,
                           MutDefault(L.al, "members", after), nextId)
    /\ UNCHANGED session

\* The first member with the body's id takes the body's name and gender,
\* each kept when the body has none.
MemberUpdated(members, j) ==
    [i \in 1..Len(members) |->
        IF i = First(WithId(members, j.id))
        THEN [members[i] EXCEPT !.name = GetOr(j, "name", members[i].name),
                                !.gender = GetOr(j, "gender", members[i].gender)]
        ELSE members[i]]

\* admin_members, PUT (lines 430-441), from client c.
MembersPut(w, c) ==
    /\ BeginRequest(w)
    /\ \E j \in MemberPutBodies, g \in GetOutcomes, ok \in BOOLEAN :
        /\ GetPossible(g) /\ DiskPossible(ok)
        /\ req' = [req EXCEPT ![w] = [op |-> "members_put", client |-> c, j |-> j]]
        /\ LET L == load_data(g, ok)
               members == IF L.raised THEN <<>> ELSE ViewOf(L.doc, L.al)["members"]
               after == IF WithId(members, j.id) = {} THEN <<>>
                        ELSE MemberUpdated(members, j)
           IN
            IF ~AdminRequired(session[c])
            THEN AnswerUnloaded(w, Error(403, "Admin login required"))
            ELSE IF L.raised THEN Answer(w, L, Response500)
            ELSE IF WithId(members, j.id) = {}
            THEN Answer(w, L, Error(404, "Member not found"))
            ELSE EnterSave(w, L, MutDoc(L.doc, L.al, "members", after), L.al,
                           MutDefault(L.al, "members", after), 0)
    /\ UNCHANGED session

\* admin_members, DELETE (lines 442-448), from client c: data["members"] is
\* bound to a new list, the days of data["attendance"] are changed in place.
MembersDelete(w, c) ==
    /\ BeginRequest(w)
    /\ \E mid \in MemberIds, g \in GetOutcomes, ok \in BOOLEAN :
        /\ GetPossible(g) /\ DiskPossible(ok)
        /\ req' = [req EXCEPT ![w] = [op |-> "members_delete", client |-> c, id |-> mid]]
        /\ LET L == load_data(g, ok)
               view == ViewOf(L.doc, L.al)
               set == SetKey(L.doc, L.al, "members", Without(view["members"], mid))
               after == IF L.raised THEN <<>> ELSE Cascaded(view["attendance"], mid)
           IN
            IF ~AdminRequired(session[c])
            THEN AnswerUnloaded(w, Error(403, "Admin login required"))
            ELSE IF L.raised THEN Answer(w, L, Response500)
            ELSE EnterSave(w, L, MutDoc(set.doc, set.al, "attendance", after), set.al,
                           MutDefault(set.al, "attendance", after), 0)
    /\ UNCHANGED session

\* admin_attendance (lines 452-464), from client c: the body is checked
\* before the document is loaded.
AdminAttendance(w, c) ==
    /\ BeginRequest(w)
    /\ \E date \in AttendanceDates, mid \in MemberIds, status \in AttendanceStatuses,
          g \in GetOutcomes, ok \in BOOLEAN :
        /\ GetPossible(g) /\ DiskPossible(ok)
        /\ req' = [req EXCEPT ![w] = [op |-> "attendance", client |-> c, date |-> date,
                                      id |-> mid, status |-> status]]
        /\ LET L == load_data(g, ok)
               after == IF L.raised THEN <<>>
                        ELSE Marked(ViewOf(L.doc, L.al)["attendance"], date, mid, status)
           IN
            IF ~AdminRequired(session[c])
            THEN AnswerUnloaded(w, Error(403, "Admin login required"))
            ELSE IF status \notin {"present", "absent"}
            THEN AnswerUnloaded(w, Error(400, "Invalid data"))
            ELSE IF L.raised THEN Answer(w, L, Response500)
            ELSE EnterSave(w, L, MutDoc(L.doc, L.al, "attendance", after), L.al,
                           MutDefault(L.al, "attendance", after), 0)
    /\ UNCHANGED session

\* ---------------------------------------------- donations, contributions
\* JSON values of a request body, and Python floats: a float is a number,
\* or nan, which compares False with everything.
JNull == [t |-> "null", v |-> 0, s |-> ""]
JNum(n) == [t |-> "num", v |-> n, s |-> ""]
JStr(str) == [t |-> "str", v |-> 0, s |-> str]
FNum(n) == [kind |-> "num", v |-> n]
NaN == [kind |-> "nan", v |-> 0]

\* x or 0: None, 0 and "" are falsy.
Truthy(x) == (x.t = "num" /\ x.v # 0) \/ (x.t = "str" /\ x.s # "")

\* float(x): the float, or an exception (TypeError for None, ValueError for
\* a string that is no float literal; "nan" is one).
FloatOfString(str) ==
    IF str = "5" THEN [raised |-> FALSE, f |-> FNum(5)]
    ELSE IF str = "nan" THEN [raised |-> FALSE, f |-> NaN]
    ELSE [raised |-> TRUE, f |-> FNum(0)]

Float(x) ==
    IF x.t = "num" THEN [raised |-> FALSE, f |-> FNum(x.v)]
    ELSE IF x.t = "str" THEN FloatOfString(x.s)
    ELSE [raised |-> TRUE, f |-> FNum(0)]

\* try: amount = float(j.get("amount") or 0) / except Exception: amount = 0
PostedAmount(j) ==
    LET raw == IF "amount" \in DOMAIN j /\ Truthy(j.amount) THEN j.amount ELSE JNum(0)
    IN IF Float(raw).raised THEN FNum(0) ELSE Float(raw).f

\* amount <= 0
LeqZero(f) == f.kind = "num" /\ f.v <= 0

\* try: if "amount" in j: d["amount"] = float(j.get("amount", ...)) / except: pass
PutAmount(j, old) ==
    IF "amount" \in DOMAIN j /\ ~Float(j.amount).raised THEN Float(j.amount).f ELSE old

MoneyKey(op) ==
    IF op \in {"donations_post", "donation_put"} THEN "donations" ELSE "contributions"

PostAmounts == {JNum(5), JNum(0), JNum(0 - 5), JStr("abc"), JStr("nan")}
PostBodies == {[name |-> "Ann"]} \cup {[name |-> "Ann", amount |-> a] : a \in PostAmounts}
PutAmounts == {JNum(0), JNull}
PutBodies == {[note |-> "n"]} \cup {[note |-> "n", amount |-> a] : a \in PutAmounts}

MoneyPostRequests ==
    {Request("donations_post", [j |-> j]) : j \in PostBodies}
    \cup {Request("contributions_post", [j |-> j]) : j \in PostBodies}
MoneyPutRequests ==
    {Request("donation_put", [id |-> 1, j |-> j]) : j \in PutBodies}
    \cup {Request("contribution_put", [id |-> 1, j |-> j]) : j \in PutBodies}

\* admin_donations and admin_contributions, POST (lines 538-553, 589-613).
MoneyPost(w, op) ==
    /\ ContinueRequest(w, op)
    /\ \E g \in GetOutcomes, ok \in BOOLEAN :
        /\ GetPossible(g) /\ DiskPossible(ok)
        /\ LET r == req[w]
               L == load_data(g, ok)
               amount == PostedAmount(r.j)
               rec == [id |-> nextId, name |-> Strip(OrDefault(r.j.name, "Anonymous")),
                       amount |-> amount, note |-> GetOr(r.j, "note", "")]
               after == IF L.raised THEN <<>>
                        ELSE <<rec>> \o ViewOf(L.doc, L.al)[MoneyKey(op)]
           IN
            IF L.raised THEN Answer(w, L, Response500)
            ELSE IF LeqZero(amount) THEN Answer(w, L, Error(400, "Invalid amount"))
            ELSE EnterSave(w, L, MutDoc(L.doc, L.al, MoneyKey(op), after), L.al,
                           MutDefault(L.al, MoneyKey(op), after), nextId)

DonationsPost(w) == MoneyPost(w, "donations_post")
ContributionsPost(w) == MoneyPost(w, "contributions_post")

\* The first record with the given id takes the body's fields.
MoneyUpdated(list, id, j) ==
    [i \in 1..Len(list) |->
        IF i = First(WithId(list, id))
        THEN [list[i] EXCEPT !.name = GetOr(j, "name", list[i].name),
                             !.amount = PutAmount(j, list[i].amount),
                             !.note = GetOr(j, "note", list[i].note)]
        ELSE list[i]]

\* admin_donation_modify and admin_contribution_modify, PUT (lines 557-575,
\* 618-638).
MoneyPut(w, op) ==
    /\ ContinueRequest(w, op)
    /\ \E g \in GetOutcomes, ok \in BOOLEAN :
        /\ GetPossible(g) /\ DiskPossible(ok)
        /\ LET r == req[w]
               L == load_data(g, ok)
               list == IF L.raised THEN <<>> ELSE ViewOf(L.doc, L.al)[MoneyKey(op)]
               after == IF WithId(list, r.id) = {} THEN <<>>
                        ELSE MoneyUpdated(list, r.id, r.j)
           IN
            IF L.raised THEN Answer(w, L, Response500)
            ELSE IF WithId(list, r.id) = {} THEN Answer(w, L, Error(404, "Not found"))
            ELSE EnterSave(w, L, MutDoc(L.doc, L.al, MoneyKey(op), after), L.al,
                           MutDefault(L.al, MoneyKey(op), after), 0)

DonationPut(w) == MoneyPut(w, "donation_put")
ContributionPut(w) == MoneyPut(w, "contribution_put")

\* ------------------------------------------- content update, deletions
\* find_and_update (lines 469-477) for updates = the body without "id":
\* the first item with the id takes the body's other keys.
ItemUpdated(list, id, j) ==
    [i \in 1..Len(list) |->
        IF i = First(WithId(list, id))
        THEN [k \in DOMAIN list[i] \cup (DOMAIN j \ {"id"}) |->
                IF k \in DOMAIN j \ {"id"} THEN j[k] ELSE list[i][k]]
        ELSE list[i]]

\* admin_collection_modify, PUT (lines 513-522), for a collection that
\* passed the check of line 498.
CollectionPut(w) ==
    /\ ContinueRequest(w, "collection_put")
    /\ req[w].collection \in ContentCollections
    /\ \E g \in GetOutcomes, ok \in BOOLEAN :
        /\ GetPossible(g) /\ DiskPossible(ok)
        /\ LET r == req[w]
               L == load_data(g, ok)
               list == IF L.raised THEN <<>> ELSE ViewOf(L.doc, L.al)[r.collection]
               after == IF WithId(list, r.id) = {} THEN <<>>
                        ELSE ItemUpdated(list, r.id, r.j)
           IN
            IF L.raised THEN Answer(w, L, Response500)
            ELSE IF WithId(list, r.id) = {} THEN Answer(w, L, Error(404, "Not found"))
            ELSE EnterSave(w, L, MutDoc(L.doc, L.al, r.collection, after), L.al,
                           MutDefault(L.al, r.collection, after), 0)

\* The three _del functions (lines 524-532, 576-583, 639-647), each behind
\* admin_required: route, key of the document, id in the path.
DeleteTargets ==
    {<<"collection_delete", "events", 60>>, <<"donation_delete", "donations", 61>>,
     <<"contribution_delete", "contributions", 62>>}

\* (variant: a staff identity passes too)
AdminOrStaff(sess) == sess.admin_id # 0 \/ sess.staff_id # 0

DeleteAllowed(sess) == AdminRequired(sess)

AdminDelete(w, c) ==
    /\ BeginRequest(w)
    /\ \E t \in DeleteTargets, g \in GetOutcomes, ok \in BOOLEAN :
        /\ GetPossible(g) /\ DiskPossible(ok)
        /\ req' = [req EXCEPT ![w] = [op |-> t[1], client |-> c, key |-> t[2], id |-> t[3]]]
        /\ LET L == load_data(g, ok)
               set == SetKey(L.doc, L.al, t[2], Without(ViewOf(L.doc, L.al)[t[2]], t[3]))
           IN
            IF ~DeleteAllowed(session[c])
            THEN AnswerUnloaded(w, Error(403, "Admin login required"))
            ELSE IF L.raised THEN Answer(w, L, Response500)
            ELSE EnterSave(w, L, set.doc, set.al, DEFAULT_DATA, 0)
    /\ UNCHANGED session

\* ------------------------------------------------------------- pulses
\* if len(data["pulses"]) > 200: data["pulses"] = data["pulses"][:200]
(* variant: the newest entry is the one dropped *)
TrimmedTail(list) ==
    IF Len(list) > PulseLimit THEN SubSeq(list, 2, Len(list)) ELSE list
Trimmed(list) ==
    IF Len(list) > PulseLimit THEN SubSeq(list, 1, PulseLimit) ELSE list

Pulse(id) == [id |-> id, payload |-> "ping"]

\* pulse_receiver (lines 727-771).  authorized: whether PULSE_SECRET is unset
\* or the request's token equals it.  The entry is inserted into the list
\* the document holds; a list that got too long is replaced by a new one.
\* limit: how many pulses the run takes.
PulseReceiver(w, limit) ==
    /\ BeginRequest(w)
    /\ nextId <= limit
    /\ \E authorized \in BOOLEAN, g \in GetOutcomes, ok \in BOOLEAN :
        /\ GetPossible(g) /\ DiskPossible(ok)
        /\ req' = [req EXCEPT ![w] = [op |-> "pulse_receiver", client |-> 0,
                                      authorized |-> authorized]]
        /\ LET L == load_data(g, ok)
               inserted == IF L.raised THEN <<>>
                           ELSE <<Pulse(nextId)>> \o ViewOf(L.doc, L.al)["pulses"]
               doc1 == MutDoc(L.doc, L.al, "pulses", inserted)
               set == IF Len(inserted) > PulseLimit
                      THEN SetKey(doc1, L.al, "pulses", Trimmed(inserted))
                      ELSE [doc |-> doc1, al |-> L.al]
           IN
            IF ~authorized
            THEN AnswerUnloaded(w, [status |-> 401, ok |-> FALSE])
            ELSE IF L.raised THEN Answer(w, L, Response500)
            ELSE EnterSave(w, L, set.doc, set.al,
                           MutDefault(L.al, "pulses", inserted), nextId)
    /\ UNCHANGED session

\* ------------------------------------------- staff creation, prayer reply
StaffNames == {"Kim", ""}
StaffPerms == {[reply_prayers |-> TRUE]}

\* admin_staff, POST (lines 670-686), from client c.
\* limit: how many ids the run draws.
AdminStaffPost(w, c, limit) ==
    /\ BeginRequest(w)
    /\ nextId <= limit
    /\ \E jname \in StaffNames, jperms \in StaffPerms, g \in GetOutcomes, ok \in BOOLEAN :
        /\ GetPossible(g) /\ DiskPossible(ok)
        /\ req' = [req EXCEPT ![w] = [op |-> "staff_post", client |-> c, name |-> jname]]
        /\ LET L == load_data(g, ok)
               name == Strip(jname)
               staff == [id |-> nextId, name |-> name, perms |-> jperms,
                         pass_hash |-> Hash("s")]
               after == IF L.raised THEN <<>>
                        ELSE Append(ViewOf(L.doc, L.al)["staff"], staff)
           IN
            IF ~AdminRequired(session[c])
            THEN AnswerUnloaded(w, Error(403, "Admin login required"))
            ELSE IF L.raised THEN Answer(w, L, Response500)
            ELSE IF name = ""
            THEN Answer(w, L, Error(400, "Name & password required"))
            ELSE EnterSave(w, L, MutDoc(L.doc, L.al, "staff", after), L.al,
                           MutDefault(L.al, "staff", after), nextId)
    /\ UNCHANGED session

\* POST /api/admin/prayers/<pid>/reply: route parameter and body.
ReplyRequests == {Request("reply_prayer", [pid |-> 1, reply |-> "amen"])}

\* The first prayer with the given id gets the reply; the others are kept.
(* variant: every prayer gets the reply *)
RepliedAll(prayers, pid, reply) ==
    [i \in 1..Len(prayers) |->
        [prayers[i] EXCEPT !.reply = reply, !.status = "answered"]]
Replied(prayers, pid, reply) ==
    [i \in 1..Len(prayers) |->
        IF i = First(WithId(prayers, pid))
        THEN [prayers[i] EXCEPT !.reply = reply, !.status = "answered"]
        ELSE prayers[i]]

\* reply_prayer (lines 653-664).
ReplyPrayer(w) ==
    /\ ContinueRequest(w, "reply_prayer")
    /\ \E g \in GetOutcomes, ok \in BOOLEAN :
        /\ GetPossible(g) /\ DiskPossible(ok)
        /\ LET r == req[w]
               L == load_data(g, ok)
               prayers == IF L.raised THEN <<>> ELSE ViewOf(L.doc, L.al)["prayers"]
               after == IF WithId(prayers, r.pid) = {} THEN <<>>
                        ELSE Replied(prayers, r.pid, Strip(r.reply))
           IN
            IF L.raised THEN Answer(w, L, Response500)
            ELSE IF WithId(prayers, r.pid) = {}
            THEN Answer(w, L, Error(404, "Not found"))
            ELSE EnterSave(w, L, MutDoc(L.doc, L.al, "prayers", after), L.al,
                           MutDefault(L.al, "prayers", after), 0)

\* Another process (another worker, another deployment) saves its own
\* document to DB_PATH: the default document with the one prayer it took.
OtherDoc ==
    [EmptyDefaults EXCEPT !["prayers"] = <<Prayer(100, "Other", "pray", 0, "")>>]

OtherWriter ==
    /\ configured
    /\ remote # RemoteFile(OtherDoc)
    /\ remote' = RemoteFile(OtherDoc)
    /\ hist' = [hist EXCEPT !.untouched = FALSE]
    /\ UNCHANGED <<configured, faults, LOCAL_DATA_FILE, GITHUB_SHA, app_config_GITHUB_SHA,
                   DEFAULT_DATA, nextId, pc, data, aliased, saveVars, resp,
                   lastLoad, raceVars, health, webVars>>

\* ------------------------------------------------------------ specifications
\* One request at a time in this process; other processes write the remote.
Next ==
    \/ ApiPrayersPost(1, MaxPosts, AssignInputs)
    \/ ApiHealth(1)
    \/ SaveGet(1)
    \/ SavePut(1)
    \/ SaveFallback(1)
    \/ SaveLocal(1)
    \/ OtherWriter

Spec == Init /\ [][Next]_vars

\* Two request threads of one process (the development server serves each
\* request on its own thread) post prayers against a configured remote whose
\* document either was written before "prayers" was added to the schema or
\* has every key; nothing fails, so every save ends with its remote write.
InitRace ==
    /\ configured = TRUE
    /\ faults = FALSE
    /\ session = [c \in Clients |-> NoSession]
    /\ remote \in {RemoteFile(DocOld), RemoteFile(EmptyDefaults)}
    /\ LOCAL_DATA_FILE = FileAbsent
    /\ InitProcess
    /\ InitThreads

NextRace ==
    \E w \in Writers :
        \/ ApiPrayersPost(w, MaxRacePosts, AssignInputs)
        \/ SaveGet(w)
        \/ SavePut(w)

SpecRace == InitRace /\ [][NextRace]_vars

\* Admin bootstrap: clients try to register the first admin against a store
\* that has none, with the network and the disk free to fail.
InitRegister ==
    /\ configured \in BOOLEAN
    /\ faults = TRUE
    /\ remote \in IF configured
                  THEN {RemoteAbsent, RemoteFile(EmptyDefaults)}
                  ELSE {RemoteAbsent}
    /\ LOCAL_DATA_FILE \in {FileAbsent, JsonDump(EmptyDefaults)}
    /\ session = [c \in Clients |-> NoSession]
    /\ InitProcess
    /\ InitThreads

NextRegister ==
    \/ \E c \in Clients : AdminRegister(1, c, MaxAdmins)
    \/ SaveGet(1)
    \/ SavePut(1)
    \/ SaveFallback(1)
    \/ SaveLocal(1)

SpecRegister == InitRegister /\ [][NextRegister]_vars

\* Content posting behind the permission gate: a store that holds an admin,
\* a staff member without post_content and one with it; client 1 logs in
\* as admin, client 2 as staff, both post content, staff gets deleted.
\* Nothing fails.
Admin0 == [id |-> 40, name |-> "root", pass_hash |-> Hash("x")]
StaffP == [id |-> 51, name |-> "Pat", perms |-> [post_content |-> TRUE],
           pass_hash |-> Hash("s")]
DocSeed == [EmptyDefaults EXCEPT !["admins"] = <<Admin0>>, !["staff"] = <<Staff0, StaffP>>]

InitSeeded ==
    /\ configured \in BOOLEAN
    /\ faults = FALSE
    /\ remote = IF configured THEN RemoteFile(DocSeed) ELSE RemoteAbsent
    /\ LOCAL_DATA_FILE = IF configured THEN FileAbsent ELSE JsonDump(DocSeed)
    /\ session = [c \in Clients |-> NoSession]
    /\ InitProcess
    /\ InitThreads

NextGate ==
    \/ AdminLogin(1, 1)
    \/ StaffLogin(1, 2)
    \/ \E c \in Clients :
        \/ StaffOrAdminAllowed(1, c, ContentRequests, MaxContent)
        \/ AdminStaffDelete(1, c)
    \/ CollectionPost(1)
    \/ SaveGet(1)
    \/ SavePut(1)
    \/ SaveLocal(1)

SpecGate == InitSeeded /\ [][NextGate]_vars

\* Prayers and the staff they are assigned to: visitors submit prayers
\* assigned to a stored staff member or to nobody that exists, an admin logs
\* in, creates and deletes staff and replies to the first prayer.  Nothing
\* fails.
PrayerAssignInputs == {50, 52}

NextPrayers ==
    \/ ApiPrayersPost(1, MaxCreated, PrayerAssignInputs)
    \/ AdminLogin(1, 1)
    \/ AdminStaffPost(1, 1, MaxCreated)
    \/ AdminStaffDelete(1, 1)
    \/ StaffOrAdminAllowed(1, 1, ReplyRequests, MaxCreated + 1)
    \/ ReplyPrayer(1)
    \/ SaveGet(1)
    \/ SavePut(1)
    \/ SaveLocal(1)

SpecPrayers == InitSeeded /\ [][NextPrayers]_vars

\* The member register: an admin logs in, adds and deletes members and marks
\* attendance on two dates.  Nothing fails.
NextMembers ==
    \/ AdminLogin(1, 1)
    \/ MembersPost(1, 1, MaxMembers)
    \/ MembersDelete(1, 1)
    \/ AdminAttendance(1, 1)
    \/ SaveGet(1)
    \/ SavePut(1)
    \/ SaveLocal(1)

SpecMembers == InitSeeded /\ [][NextMembers]_vars

\* Member records: an admin logs in, adds members and updates them.
\* Nothing fails.
NextMemberNames ==
    \/ AdminLogin(1, 1)
    \/ MembersPost(1, 1, MaxMembers)
    \/ MembersPut(1, 1)
    \/ SaveGet(1)
    \/ SavePut(1)
    \/ SaveLocal(1)

SpecMemberNames == InitSeeded /\ [][NextMemberNames]_vars

\* The books: an admin logs in, records donations and contributions (at most
\* MaxRecords of them) and updates the first record.  Nothing fails.
NextMoney ==
    \/ AdminLogin(1, 1)
    \/ StaffOrAdminAllowed(1, 1, MoneyPostRequests, MaxRecords)
    \/ StaffOrAdminAllowed(1, 1, MoneyPutRequests, MaxRecords + 1)
    \/ DonationsPost(1)
    \/ ContributionsPost(1)
    \/ DonationPut(1)
    \/ ContributionPut(1)
    \/ SaveGet(1)
    \/ SavePut(1)
    \/ SaveLocal(1)

SpecMoney == InitSeeded /\ [][NextMoney]_vars

\* Who may delete: the store holds an admin, a staff member with every
\* permission, an event, a donation and a contribution; client 1 logs in as
\* admin, client 2 as staff; both create, update and delete.  No remote is
\* configured and nothing fails.
AllPerms == [post_content |-> TRUE, add_donations |-> TRUE, add_contributions |-> TRUE]
DocBooks ==
    [EmptyDefaults EXCEPT
        !["admins"] = <<Admin0>>,
        !["staff"] = <<[StaffP EXCEPT !.perms = AllPerms]>>,
        !["events"] = <<[id |-> 60, title |-> "t"]>>,
        !["donations"] = <<[id |-> 61, name |-> "Ann", amount |-> FNum(5), note |-> ""]>>,
        !["contributions"] = <<[id |-> 62, name |-> "Ann", amount |-> FNum(5), note |-> ""]>>]

InitBooks ==
    /\ configured = FALSE
    /\ faults = FALSE
    /\ remote = RemoteAbsent
    /\ LOCAL_DATA_FILE = JsonDump(DocBooks)
    /\ session = [c \in Clients |-> NoSession]
    /\ InitProcess
    /\ InitThreads

CreateRequests ==
    {Request("collection_post", [collection |-> "events", j |-> [title |-> "t"]]),
     Request("donations_post", [j |-> [name |-> "Ann", amount |-> JNum(5)]]),
     Request("contributions_post", [j |-> [name |-> "Ann", amount |-> JNum(5)]])}
UpdateRequests ==
    {Request("collection_put", [collection |-> "events", id |-> 60, j |-> [title |-> "u"]]),
     Request("donation_put", [id |-> 61, j |-> [note |-> "n"]]),
     Request("contribution_put", [id |-> 62, j |-> [note |-> "n"]])}

NextBooks ==
    \/ AdminLogin(1, 1)
    \/ StaffLogin(1, 2)
    \/ \E c \in Clients :
        \/ StaffOrAdminAllowed(1, c, CreateRequests, MaxBooks)
        \/ StaffOrAdminAllowed(1, c, UpdateRequests, MaxBooks + 1)
        \/ AdminDelete(1, c)
    \/ CollectionPost(1)
    \/ CollectionPut(1)
    \/ DonationsPost(1)
    \/ ContributionsPost(1)
    \/ DonationPut(1)
    \/ ContributionPut(1)
    \/ SaveLocal(1)

SpecBooks == InitBooks /\ [][NextBooks]_vars

\* Pulses arrive at a store whose document has no "pulses" key yet, or has
\* none, or is one short of the limit, or is at the limit; the network and
\* the disk are free to fail.
SeedPulses(n) == [i \in 1..n |-> Pulse(1000 + i)]
DocsWithPulses ==
    {[k \in DefaultKeys \ {"pulses"} |-> <<>>]}
    \cup {[EmptyDefaults EXCEPT !["pulses"] = SeedPulses(n)] :
            n \in {0, PulseLimit - 1, PulseLimit}}

InitPulses ==
    /\ configured \in BOOLEAN
    /\ faults = TRUE
    /\ \E d \in DocsWithPulses :
        /\ remote = IF configured THEN RemoteFile(d) ELSE RemoteAbsent
        /\ LOCAL_DATA_FILE = IF configured THEN FileAbsent ELSE JsonDump(d)
    /\ session = [c \in Clients |-> NoSession]
    /\ InitProcess
    /\ InitThreads

NextPulses ==
    \/ PulseReceiver(1, MaxPulses)
    \/ SaveGet(1)
    \/ SavePut(1)
    \/ SaveFallback(1)
    \/ SaveLocal(1)

SpecPulses == InitPulses /\ [][NextPulses]_vars

\* One request after the other against a configured remote whose document
\* was written before "prayers" was added to the schema, with the network
\* and the disk free to fail: visitors submit prayers.
InitRepeat ==
    /\ configured = TRUE
    /\ faults = TRUE
    /\ session = [c \in Clients |-> NoSession]
    /\ remote = RemoteFile(DocOld)
    /\ LOCAL_DATA_FILE = FileAbsent
    /\ InitProcess
    /\ InitThreads

NextRepeat ==
    \/ ApiPrayersPost(1, MaxRepeatPosts, {0})
    \/ SaveGet(1)
    \/ SavePut(1)
    \/ SaveFallback(1)

SpecRepeat == InitRepeat /\ [][NextRepeat]_vars

\* ================================================================== claims

\* C1 as stated: when the remote store is configured and all 3 remote writes
\* of a save came back with a conflict, save returned success, the local
\* cache file holds exactly the document passed to save, and the token health
\* reports (app.config["GITHUB_SHA"]) is the one from before the save.
C1_RetryThenFallback_Original ==
    \A w \in Writers :
        (pc[w] = "idle" /\ configured /\ puts[w] = attempts /\ conflicts[w] = attempts)
        => /\ save_ret[w] = "true"
           /\ LOCAL_DATA_FILE = JsonDump(View(w))
           /\ app_config_GITHUB_SHA = sha_before[w]

\* C1 amended: after 3 conflicts save has gone to the local fallback and
\* returned success exactly when the local cache file took the document
\* (failure when the file could not be written); the token health reports is
\* unchanged in both cases.
C1_RetryThenFallback ==
    \A w \in Writers :
        (pc[w] = "idle" /\ configured /\ puts[w] = attempts /\ conflicts[w] = attempts)
        => /\ save_ret[w] \in {"true", "false"}
           /\ save_ret[w] = "true" <=> LOCAL_DATA_FILE = JsonDump(View(w))
           /\ app_config_GITHUB_SHA = sha_before[w]

C1_Witness ==
    /\ pc[1] = "idle" /\ configured /\ puts[1] = attempts /\ conflicts[1] = attempts
    /\ save_ret[1] = "true"
    /\ LOCAL_DATA_FILE = JsonDump(View(1))
    /\ sha_before[1] # None
    /\ app_config_GITHUB_SHA = sha_before[1]

InSave(w) == pc[w] \in {"save_get", "save_put", "save_fallback", "save_local"}

\* C2: a save never makes more than 3 remote reads or 3 remote writes, never
\* starts an attempt beyond the third, every remote write comes after a
\* remote read of the same attempt (the reads are always exactly one ahead
\* of the writes while a write is due, and level with them otherwise), and
\* every step of a save either returns or uses up one of those reads or
\* writes, so the save returns after at most 3 attempts.
C2_Counts ==
    \A w \in Writers :
        /\ gets[w] <= attempts /\ puts[w] <= attempts /\ attempt[w] < attempts
        /\ pc[w] = "save_get" => gets[w] = attempt[w] /\ puts[w] = attempt[w]
        /\ pc[w] = "save_put" => gets[w] = attempt[w] + 1 /\ puts[w] = attempt[w]
        /\ pc[w] \in {"save_fallback", "save_local"} => gets[w] = puts[w]
        /\ pc[w] = "idle" => puts[w] <= gets[w] /\ gets[w] <= puts[w] + 1

C2_Step ==
    \A w \in Writers :
        (InSave(w) /\ pc'[w] # pc[w])
        => \/ pc'[w] = "idle"
           \/ /\ gets'[w] + puts'[w] = gets[w] + puts[w] + 1
              /\ puts'[w] = puts[w] + 1 => pc[w] = "save_put"

C2_BoundedAttempts == []C2_Counts /\ [][C2_Step]_vars

C2_Witness ==
    /\ pc[1] = "idle" /\ save_ret[1] \in {"true", "false"}
    /\ gets[1] = attempts /\ puts[1] = attempts

\* C3: a remote write that fails with a conflict (409 or 422) while fewer
\* than 3 attempts were made is followed by another attempt, which starts
\* with a remote read; after a remote write that fails in any other way
\* there is no further remote read or write and the save goes to the local
\* fallback; the fallback is entered in no other way.
C3_RetryOrAbort ==
    \A w \in Writers :
        /\ (InSave(w) /\ puts[w] > 0 /\ puts[w] < attempts /\ last_status[w] \in {409, 422})
           => \/ pc[w] = "save_get" /\ gets[w] = puts[w]
              \/ pc[w] = "save_put" /\ gets[w] = puts[w] + 1
        /\ (puts[w] > 0 /\ last_status[w] \notin {200, 201, 409, 422})
           => /\ pc[w] \in {"save_fallback", "idle"}
              /\ gets[w] = puts[w]
              /\ pc[w] = "idle" => save_ret[w] \in {"true", "false"}
        /\ pc[w] = "save_fallback"
           => /\ puts[w] > 0
              /\ last_status[w] \notin {200, 201}
              /\ last_status[w] \in {409, 422} => puts[w] = attempts

C3_Witness ==
    /\ pc[1] = "save_fallback"
    /\ conflicts[1] = 1 /\ puts[1] = 2 /\ gets[1] = 2
    /\ last_status[1] = 500

\* C4: when two requests have each loaded, inserted their prayer and saved,
\* and both saves succeeded on the remote, the remote document is the
\* document of the writer whose remote write came last, and when that writer
\* had loaded before the other one's remote write, the other one's prayer is
\* not in the remote document.
PrayerIds(doc) ==
    IF "prayers" \in DOMAIN doc
    THEN {doc["prayers"][i].id : i \in 1..Len(doc["prayers"])}
    ELSE {}

WroteRemote(w) ==
    /\ pc[w] = "idle" /\ mine[w] # 0
    /\ save_ret[w] = "true" /\ resp[w].ok
    /\ last_status[w] \in {200, 201}

C4_LastWriterWins ==
    \A a \in Writers, b \in Writers :
        (a # b /\ WroteRemote(a) /\ WroteRemote(b) /\ lastWriter = b)
        => /\ remote.doc = View(b)
           /\ a \in missed[b] => mine[a] \notin PrayerIds(remote.doc)

\* C5: an operation that ends with save having returned failure (neither the
\* remote store nor the local file took the document) answers its caller
\* with an error.
C5_HardFailure ==
    \A w \in Writers :
        (pc[w] = "idle" /\ save_ret[w] = "false") => ~resp[w].ok

\* C6: when health is asked right after a save that fell back to the local
\* file, the token it reports is None or differs from the token the remote
\* file has at that moment.
C6_FallbackObservable ==
    (health.asked /\ health.after_fallback)
    => \/ health.github_sha = None
       \/ health.github_sha # health.remote_sha

\* C7: no call of load raises.
C7_LoadNeverRaises ==
    \A w \in Writers : ~lastLoad[w].raised

\* C8: a load served from a stored document (remote file or local file)
\* returns a document that has every default key and that has, for every key
\* of the stored document, the stored value.
C8_Backfill ==
    \A w \in Writers :
        lastLoad[w].tier \in {"remote", "local"}
        => /\ DefaultKeys \subseteq DOMAIN lastLoad[w].ret
           /\ DOMAIN lastLoad[w].stored \subseteq DOMAIN lastLoad[w].ret
           /\ \A k \in DOMAIN lastLoad[w].stored :
                lastLoad[w].ret[k] = lastLoad[w].stored[k]

C8_Witness ==
    /\ lastLoad[1].tier = "remote"
    /\ "prayers" \notin DOMAIN lastLoad[1].stored
    /\ "prayers" \in DOMAIN lastLoad[1].ret
    /\ lastLoad[1].stored["staff"] # <<>>
    /\ lastLoad[1].ret["staff"] = lastLoad[1].stored["staff"]

\* C9: in the document a load returns, every key that was filled in from
\* the defaults holds the empty default value.
C9_EmptyDefaults ==
    \A w \in Writers :
        ~lastLoad[w].raised
        => \A k \in lastLoad[w].backfilled : lastLoad[w].ret[k] = <<>>

\* C10 as stated: two consecutive loads with no save in between, both of
\* which returned, returned equal documents.
C10_LoadIdempotent_Original ==
    (hist.consecutive /\ hist.returned) => hist.equal

\* C10 amended: two consecutive loads with no save in between, both of which
\* returned, returned equal documents when the remote file was not written
\* in between and both were served by the same tier, or the second was
\* served from the local file that the first one wrote.
C10_LoadIdempotent ==
    (hist.sameSource /\ hist.returned) => hist.equal

C10_Witness ==
    /\ hist.sameSource /\ hist.returned /\ hist.equal
    /\ lastLoad[1].tier = "local"
    /\ remote.kind = "doc"
    /\ lastLoad[1].ret = [k \in DOMAIN lastLoad[1].ret |->
                            IF k \in DOMAIN remote.doc THEN remote.doc[k] ELSE <<>>]

\* C11: a registration is accepted (goes on to save) only when the
\* document it loaded has no admin, and a registration attempt that starts
\* after some registration has returned success is answered 400 "Admin
\* already exists" without a save, its document's admins being the loaded
\* ones.
C11_BootstrapOneShot ==
    \A w \in Writers :
        req[w].op = "admin_register"
        => /\ InSave(w) => lastLoad[w].ret["admins"] = <<>>
           /\ req[w].after_success
              => /\ pc[w] = "idle"
                 /\ save_ret[w] = "none"
                 /\ resp[w] = Error(400, "Admin already exists")
                 /\ View(w)["admins"] = lastLoad[w].ret["admins"]

\* What the claims about the permission gate speak of: the session the
\* request came with, the staff record that session names in the staff list
\* the gate loaded, and what it is for the wrapped function to have run.
SessionOf(w) == session[req[w].client]

GateStaff(w) == WithId(req[w].gate_staff, SessionOf(w).staff_id)

GatePerm(w, perm) ==
    LET st == req[w].gate_staff[First(GateStaff(w))]
    IN "perms" \in DOMAIN st /\ perm \in DOMAIN st.perms /\ st.perms[perm]

StoredDoc == IF configured THEN remote.doc ELSE LOCAL_DATA_FILE.doc

NotExecuted(w) ==
    /\ pc[w] = "idle"
    /\ save_ret[w] = "none"
    /\ mine[w] = 0
    /\ View(w) = lastLoad[w].ret

ContentAdded(w) ==
    LET col == req[w].collection
    IN /\ mine[w] # 0
       /\ Len(View(w)[col]) >= 1
       /\ View(w)[col][1].title = req[w].j.title

ContentPostRan(w) ==
    \/ pc[w] = "admitted"
    \/ /\ req[w].collection \notin ContentCollections
       /\ pc[w] = "idle" /\ resp[w] = Error(400, "Invalid collection")
    \/ /\ req[w].collection \in ContentCollections
       /\ InSave(w) /\ ContentAdded(w)
    \/ /\ req[w].collection \in ContentCollections
       /\ pc[w] = "idle" /\ resp[w].ok /\ save_ret[w] = "true"
       /\ ContentAdded(w)
       /\ StoredDoc = View(w)

\* C12: a content post from a session with a staff identity whose record
\* has post_content false is answered 403 "Permission denied" and nothing
\* is changed or saved; from a staff identity whose record has post_content
\* true it runs and the record is added to the collection and stored; from
\* a session with an admin identity it runs whatever the perms.
C12_PermissionGate ==
    \A w \in Writers :
        req[w].op = "collection_post"
        => /\ (SessionOf(w).admin_id = 0 /\ req[w].gate_loaded /\ GateStaff(w) # {})
              => IF GatePerm(w, "post_content")
                 THEN ContentPostRan(w)
                 ELSE /\ resp[w] = Error(403, "Permission denied")
                      /\ NotExecuted(w)
                      /\ StoredDoc = lastLoad[w].ret
           /\ SessionOf(w).admin_id # 0 => ContentPostRan(w)

C12_Witness ==
    /\ req[1].op = "collection_post"
    /\ SessionOf(1).admin_id = 0 /\ SessionOf(1).staff_id = 51
    /\ GatePerm(1, "post_content")
    /\ pc[1] = "idle" /\ resp[1].ok
    /\ ContentAdded(1)
    /\ StoredDoc = View(1)

\* C13: a gated request from a session with no identity is answered 403
\* "Login required"; from a session whose staff id is not in the document
\* the gate loaded, 403 "Staff not found"; from a staff identity without the
\* permission, 403 "Permission denied"; the three answers differ from one
\* another, and in none of the cases has the guarded function run.
C13_GateFailures ==
    \A w \in Writers :
        (req[w].op = "collection_post" /\ SessionOf(w).admin_id = 0)
        => /\ SessionOf(w).staff_id = 0
              => /\ resp[w] = Error(403, "Login required")
                 /\ pc[w] = "idle" /\ save_ret[w] = "none" /\ mine[w] = 0
                 /\ lastLoad[w] = NoLoad
           /\ (SessionOf(w).staff_id # 0 /\ req[w].gate_loaded /\ GateStaff(w) = {})
              => /\ resp[w] = Error(403, "Staff not found")
                 /\ NotExecuted(w)
           /\ (SessionOf(w).staff_id # 0 /\ req[w].gate_loaded /\ GateStaff(w) # {}
                 /\ ~GatePerm(w, "post_content"))
              => /\ resp[w] = Error(403, "Permission denied")
                 /\ resp[w] # Error(403, "Login required")
                 /\ NotExecuted(w)

\* A staff session outlives its record: the record was deleted and stored
\* without it, and the next gated request of that session is refused.
C13_Witness ==
    /\ req[1].op = "collection_post"
    /\ SessionOf(1).admin_id = 0 /\ SessionOf(1).staff_id = 51
    /\ req[1].gate_loaded /\ GateStaff(1) = {}
    /\ WithId(StoredDoc["staff"], 51) = {}
    /\ resp[1] = Error(403, "Staff not found")

\* C14: in every document (stored remotely, stored locally, or in a
\* handler's hands) no two records of the list collections share an id, and
\* the record a content post has added carries the id drawn for it.
ListKeys == DefaultKeys \ {"attendance"}

UniqueIds(doc) ==
    \A k1 \in ListKeys \cap DOMAIN doc, k2 \in ListKeys \cap DOMAIN doc :
        \A i \in 1..Len(doc[k1]), j \in 1..Len(doc[k2]) :
            (k1 # k2 \/ i # j) => doc[k1][i].id # doc[k2][j].id

C14_UniqueIds ==
    /\ UniqueIds(remote.doc)
    /\ UniqueIds(LOCAL_DATA_FILE.doc)
    /\ \A w \in Writers :
        /\ UniqueIds(View(w))
        /\ (req[w].op = "collection_post" /\ InSave(w))
           => View(w)[req[w].collection][1].id = mine[w]

\* C15: in every document (stored remotely, stored locally, or in a
\* handler's hands) each prayer's assigned_to is empty or the id of a staff
\* record of that same document.
ValidAssignments(doc) ==
    ("prayers" \in DOMAIN doc /\ "staff" \in DOMAIN doc)
    => \A i \in 1..Len(doc["prayers"]) :
        \/ doc["prayers"][i].assigned_to = 0
        \/ WithId(doc["staff"], doc["prayers"][i].assigned_to) # {}

C15_AssignedToValid ==
    /\ ValidAssignments(remote.doc)
    /\ ValidAssignments(LOCAL_DATA_FILE.doc)
    /\ \A w \in Writers : ValidAssignments(View(w))

\* C16: the prayer a submission hands to save_data has assigned_to and
\* assigned_name empty when the submitted assigned_to is the id of no staff
\* record of the loaded document, and has that id and that record's name
\* when it is; a submission that answered ok has stored that prayer.
MyPrayers(w, doc) == {doc["prayers"][i] : i \in WithId(doc["prayers"], mine[w])}

AssignmentAsLoaded(w, p) ==
    LET staff == lastLoad[w].ret["staff"]
        found == WithId(staff, req[w].assigned_to)
    IN IF found = {}
       THEN p.assigned_to = 0 /\ p.assigned_name = ""
       ELSE /\ p.assigned_to = req[w].assigned_to
            /\ p.assigned_name = staff[First(found)].name

C16_AssignmentClearing ==
    \A w \in Writers :
        req[w].op = "api_prayers"
        => /\ InSave(w)
              => /\ MyPrayers(w, View(w)) # {}
                 /\ \A p \in MyPrayers(w, View(w)) : AssignmentAsLoaded(w, p)
           /\ (pc[w] = "idle" /\ resp[w].ok)
              => /\ MyPrayers(w, StoredDoc) # {}
                 /\ MyPrayers(w, StoredDoc) = MyPrayers(w, View(w))
                 /\ \A p \in MyPrayers(w, StoredDoc) : p.assigned_to \in {0, req[w].assigned_to}

\* A prayer assigned to a staff member and one whose assigned_to named
\* nobody have both been stored, the second one just now.
C16_Witness ==
    /\ req[1].op = "api_prayers" /\ req[1].assigned_to = 52
    /\ pc[1] = "idle" /\ resp[1].ok
    /\ StoredDoc["staff"] # <<>>
    /\ \E p \in MyPrayers(1, StoredDoc) : p.assigned_to = 0 /\ p.assigned_name = ""
    /\ \E i \in 1..Len(StoredDoc["prayers"]) :
        /\ StoredDoc["prayers"][i].assigned_to = 50
        /\ StoredDoc["prayers"][i].assigned_name = "Sam"

\* C17: the document a member deletion hands to save_data, and stores, has
\* the loaded members without the deleted one, in their order and unchanged,
\* the loaded dates, and on each date the loaded entries of every other
\* member and none of the deleted one.
C17_CascadeDelete ==
    \A w \in Writers :
        (req[w].op = "members_delete" /\ InSave(w))
        => LET before == lastLoad[w].ret
               after == View(w)
               mid == req[w].id
           IN /\ WithId(after["members"], mid) = {}
              /\ after["members"] = SelectSeq(before["members"], LAMBDA m : m.id # mid)
              /\ DOMAIN after["attendance"] = DOMAIN before["attendance"]
              /\ \A d \in DOMAIN before["attendance"] :
                    /\ after["attendance"][d] \subseteq before["attendance"][d]
                    /\ \A e \in before["attendance"][d] :
                          e \in after["attendance"][d] <=> e.id # mid
              /\ \A k \in DOMAIN before \ {"members", "attendance"} : after[k] = before[k]

\* Two members have entries on the same date, and one of them is deleted:
\* its entries go, the other's stay.
C17_Witness ==
    /\ req[1].op = "members_delete" /\ InSave(1)
    /\ WithId(lastLoad[1].ret["members"], req[1].id) # {}
    /\ Len(View(1)["members"]) = 1
    /\ \E d \in DOMAIN lastLoad[1].ret["attendance"] :
        /\ \E e \in lastLoad[1].ret["attendance"][d] : e.id = req[1].id
        /\ View(1)["attendance"][d] # {}

\* C20: in every document (stored remotely, stored locally, or in a
\* handler's hands) every member has a non-empty name.
NamedMembers(doc) ==
    "members" \in DOMAIN doc
    => \A i \in 1..Len(doc["members"]) : doc["members"][i].name # ""

C20_MemberNames ==
    /\ NamedMembers(remote.doc)
    /\ NamedMembers(LOCAL_DATA_FILE.doc)
    /\ \A w \in Writers : NamedMembers(View(w))

\* An amount as the specification reads it: a number greater than zero.
Positive(f) == f.kind = "num" /\ f.v > 0

\* C18: a donation or contribution creation whose amount is missing or does
\* not parse as a number greater than zero is answered with an error, saves
\* nothing and leaves the document as it was loaded.
C18_AmountValidation ==
    \A w \in Writers :
        (/\ req[w].op \in {"donations_post", "contributions_post"}
         /\ pc[w] # "admitted"
         /\ ~Positive(PostedAmount(req[w].j)))
        => /\ pc[w] = "idle"
           /\ ~resp[w].ok
           /\ save_ret[w] = "none"
           /\ mine[w] = 0
           /\ lastLoad[w] # NoLoad => View(w) = lastLoad[w].ret

\* C19: in every document (stored remotely, stored locally, or in a
\* handler's hands) every donation and every contribution has an amount
\* greater than zero.
PositiveAmounts(doc) ==
    \A k \in {"donations", "contributions"} \cap DOMAIN doc :
        \A i \in 1..Len(doc[k]) : Positive(doc[k][i].amount)

C19_PositiveAmounts ==
    /\ PositiveAmounts(remote.doc)
    /\ PositiveAmounts(LOCAL_DATA_FILE.doc)
    /\ \A w \in Writers : PositiveAmounts(View(w))

\* C21: in every step that changes the stored document, a prayer that
\* is new in it is the one just submitted, with the id drawn for it, status
\* "open" and reply ""; a prayer that was there is still there, and is either
\* unchanged or is the one a reply request names, now "answered" with the
\* given reply; so an "open" prayer becomes "answered" only by a reply and an
\* "answered" one never becomes "open".
PrayerOf(doc, id) == doc["prayers"][First(WithId(doc["prayers"], id))]

C21_Step ==
    LET before == StoredDoc
        after == StoredDoc'
        ids(doc) == {doc["prayers"][i].id : i \in 1..Len(doc["prayers"])}
    IN /\ \A id \in ids(before) :
            /\ id \in ids(after)
            /\ \/ PrayerOf(after, id) = PrayerOf(before, id)
               \/ /\ \E w \in Writers : /\ req[w].op = "reply_prayer"
                                        /\ req[w].pid = id
                                        /\ PrayerOf(after, id).reply = Strip(req[w].reply)
                  /\ PrayerOf(after, id) =
                        [PrayerOf(before, id) EXCEPT !.status = "answered",
                                                     !.reply = PrayerOf(after, id).reply]
            /\ PrayerOf(before, id).status = "answered"
               => PrayerOf(after, id).status = "answered"
       /\ \A id \in ids(after) \ ids(before) :
            /\ \E w \in Writers : req[w].op = "api_prayers" /\ mine[w] = id
            /\ PrayerOf(after, id).status = "open"
            /\ PrayerOf(after, id).reply = ""

C21_PrayerLifecycle == [][C21_Step]_vars

\* Of two stored prayers the first submitted has just been answered and
\* the other one is still open.
C21_Witness ==
    /\ req[1].op = "reply_prayer" /\ pc[1] = "idle" /\ resp[1].ok
    /\ Len(StoredDoc["prayers"]) = 2
    /\ PrayerOf(StoredDoc, 1).status = "answered"
    /\ PrayerOf(StoredDoc, 1).reply = "amen"
    /\ \E i \in 1..2 : /\ StoredDoc["prayers"][i].id # 1
                       /\ StoredDoc["prayers"][i].status = "open"
                       /\ StoredDoc["prayers"][i].reply = ""

\* C22: the document a prayer submission hands to save_data comes from a
\* load of that same request and is that load's stored document with the
\* missing keys empty and the new prayer in front: it holds nothing that an
\* earlier request put into a document of its own.
Fresh(w, k) ==
    IF k \in DOMAIN lastLoad[w].stored THEN lastLoad[w].stored[k] ELSE <<>>

C22_FreshLoad ==
    \A w \in Writers :
        (req[w].op = "api_prayers" /\ InSave(w))
        => /\ lastLoad[w].tier # "none"
           /\ \A k \in DOMAIN View(w) \ {"prayers"} : View(w)[k] = Fresh(w, k)
           /\ Len(View(w)["prayers"]) >= 1
           /\ View(w)["prayers"][1].id = mine[w]
           /\ Tail(View(w)["prayers"]) = Fresh(w, "prayers")

\* A step in which w's remote write succeeds, and what every such step
\* does besides the token: the remote file is the document saved, the local
\* file is that document or, the write failing, what it was, and save_data
\* has returned True with no further attempt.
RemoteWriteSucceeds(w) ==
    /\ pc[w] = "save_put"
    /\ puts'[w] = puts[w] + 1
    /\ last_status'[w] \in {200, 201}

SuccessReturns(w) ==
    /\ remote'.doc = View(w)
    /\ LOCAL_DATA_FILE' \in {JsonDump(View(w)), LOCAL_DATA_FILE}
    /\ pc'[w] = "idle"
    /\ save_ret'[w] = "true"
    /\ gets'[w] = gets[w]
    /\ GITHUB_SHA' = app_config_GITHUB_SHA'

\* C23 as stated: in every step in which a remote write of save succeeds,
\* the remembered token becomes the token the remote file has after that
\* write, the local file is overwritten with the saved document if the disk
\* takes it, and save returns True without another attempt.
C23_WriteSuccess_Original ==
    [][\A w \in Writers :
        RemoteWriteSucceeds(w)
        => SuccessReturns(w) /\ app_config_GITHUB_SHA' = remote'.sha]_vars

\* C23 amended: as above, but the remembered token becomes the token the
\* remote file has after the write or, when the answer to the write carries
\* no readable token, None.
C23_WriteSuccess ==
    [][\A w \in Writers :
        RemoteWriteSucceeds(w)
        => SuccessReturns(w) /\ app_config_GITHUB_SHA' \in {remote'.sha, None}]_vars

\* A save that succeeded on its second attempt, after a conflict: the
\* token remembered is the remote file's and the local file is the document.
C23_Witness ==
    /\ pc[1] = "idle" /\ save_ret[1] = "true" /\ last_status[1] = 200
    /\ puts[1] = 2 /\ conflicts[1] = 1
    /\ app_config_GITHUB_SHA = remote.sha /\ remote.sha # None
    /\ remote.doc = View(1)
    /\ LOCAL_DATA_FILE = JsonDump(View(1))

\* C25: whenever save is about to issue its remote write and the remote
\* file exists, the token the write will carry is the token of that file, as
\* the remote read of the same attempt obtained it; no other process writes
\* the remote file here, so a write without that token follows a read that
\* failed.
C25_TaggedWrites ==
    \A w \in Writers :
        (pc[w] = "save_put" /\ remote.kind = "doc")
        => /\ latest_sha[w] # None
           /\ latest_sha[w] = remote.sha

\* C24: the document an accepted pulse hands to save_data has at most 200
\* pulses, the new one first, followed by the loaded ones in their order,
\* all of them when they were fewer than 200 and all but the last (oldest)
\* otherwise; no stored document has more than 200.
PulsesOf(doc) == IF "pulses" \in DOMAIN doc THEN doc["pulses"] ELSE <<>>

LoadsAfterSave(w) ==
    /\ pc[w] = "idle" /\ save_ret[w] = "true"
    /\ lastLoad'[w].tier # "none" /\ ~lastLoad'[w].raised

\* C26: a request that is answered with a validation error right after a
\* save that returned True and left the saved document in the local file
\* runs no save and leaves the remote file and that local file as they are.
C26_ErrorsNoEffect ==
    [][\A w \in Writers :
        (/\ pc[w] = "idle" /\ save_ret[w] = "true"
         /\ LOCAL_DATA_FILE = JsonDump(View(w))
         /\ req'[w].op = "api_prayers" /\ resp'[w].status = 400)
        => /\ pc'[w] = "idle" /\ save_ret'[w] = "none"
           /\ remote' = remote
           /\ LOCAL_DATA_FILE' = LOCAL_DATA_FILE]_vars

\* C28: with one process and nobody else writing, the load that follows a
\* save that returned True and that finds the remote reachable returns the
\* saved document, and leaves in the local file the saved document or what
\* was there.
C28_ReadYourWrites ==
    [][\A w \in Writers :
        (LoadsAfterSave(w) /\ lastLoad'[w].tier = "remote")
        => /\ lastLoad'[w].ret = View(w)
           /\ LOCAL_DATA_FILE' \in {LOCAL_DATA_FILE, JsonDump(View(w))}]_vars

\* C27: a deletion of an event, a donation or a contribution from a
\* session without an admin identity, a staff identity with every permission
\* included, is answered 403 "Admin login required", runs no save and leaves
\* the stored document as it is; a creation or an update from that staff
\* identity is not refused: it runs (and saves, or finds no record to update).
Deleting(w) == req[w].op \in {"collection_delete", "donation_delete", "contribution_delete"}

Writing(w) ==
    req[w].op \in {"collection_post", "donations_post", "contributions_post",
                   "collection_put", "donation_put", "contribution_put"}

C27_Refused(w) ==
    /\ pc[w] = "idle"
    /\ resp[w] = Error(403, "Admin login required")
    /\ save_ret[w] = "none"
    /\ (\A c \in Clients : session[c].admin_id = 0)
       => WithId(StoredDoc[req[w].key], req[w].id) # {}

C27_Ran(w) ==
    \/ pc[w] = "admitted"
    \/ InSave(w)
    \/ pc[w] = "idle" /\ resp[w].ok /\ save_ret[w] = "true"
    \/ pc[w] = "idle" /\ resp[w] = Error(404, "Not found") /\ save_ret[w] = "none"

C27_DeleteNeedsAdmin ==
    \A w \in Writers :
        /\ (Deleting(w) /\ SessionOf(w).admin_id = 0) => C27_Refused(w)
        /\ (Deleting(w) /\ InSave(w)) => SessionOf(w).admin_id # 0
        /\ (/\ Writing(w)
            /\ SessionOf(w).admin_id = 0 /\ SessionOf(w).staff_id = 51
            /\ req[w].gate_loaded /\ GateStaff(w) # {})
           => C27_Ran(w)

\* The staff member with every permission has just been refused the
\* deletion of the donation, which is still stored, no admin being logged in.
C27_Witness ==
    /\ req[1].op = "donation_delete" /\ pc[1] = "idle"
    /\ SessionOf(1).staff_id = 51 /\ SessionOf(1).admin_id = 0
    /\ \A c \in Clients : session[c].admin_id = 0
    /\ resp[1] = Error(403, "Admin login required")
    /\ WithId(StoredDoc["donations"], 61) # {}

====
